---------------------------- MODULE Spec2Model ----------------------------
(***************************************************************************)
(* A model of markhub (github.com/CageChen/markhub): the configuration     *)
(* (internal/config), the two source backends (internal/fs), the tree      *)
(* constructor and the repo grouper (internal/handler/tree.go).            *)
(*                                                                         *)
(* Go strings are TLA+ strings; a byte of a string s is SubSeq(s, i, i).   *)
(* Paths use "/" as filepath.Separator (the Unix build).                   *)
(***************************************************************************)
EXTENDS Integers, Sequences, FiniteSets, TLC

(***************************************************************************)
(* Strings: the functions of package strings and path/filepath the         *)
(* program calls, computed byte by byte.                                   *)
(***************************************************************************)

Char(s, i) == SubSeq(s, i, i)

\* s[i:] of Go for a 0-based i, i.e. the suffix that starts after i bytes.
Drop(s, i) == SubSeq(s, i + 1, Len(s))

\* s[:i] of Go.
Take(s, i) == SubSeq(s, 1, i)

HasPrefix(s, prefix) ==
    /\ Len(prefix) <= Len(s)
    /\ Take(s, Len(prefix)) = prefix

Contains(s, substr) ==
    \E i \in 0..(Len(s) - Len(substr)) : SubSeq(s, i + 1, i + Len(substr)) = substr

TrimPrefix(s, prefix) == IF HasPrefix(s, prefix) THEN Drop(s, Len(prefix)) ELSE s

\* The 1-based positions of the separators of s.
SlashPositions(s) == {i \in 1..Len(s) : Char(s, i) = "/"}

Max(S) == CHOOSE x \in S : \A y \in S : y <= x
Min(S) == CHOOSE x \in S : \A y \in S : x <= y

\* gitfs.go baseName: the text after the last "/", the whole text without one.
baseName(path) ==
    IF SlashPositions(path) = {} THEN path
    ELSE Drop(path, Max(SlashPositions(path)))

RECURSIVE TrimTrailingSlashes(_)
TrimTrailingSlashes(s) ==
    IF Len(s) > 0 /\ Char(s, Len(s)) = "/"
    THEN TrimTrailingSlashes(Take(s, Len(s) - 1))
    ELSE s

\* filepath.Base: "." for the empty path, trailing separators stripped, the
\* last element; a path of separators only is "/".
FilepathBase(path) ==
    IF path = "" THEN "."
    ELSE LET t == TrimTrailingSlashes(path)
         IN  IF t = "" THEN "/" ELSE baseName(t)

\* filepath.Ext: the suffix beginning at the final dot in the final element.
FilepathExt(path) ==
    LET b == baseName(path)
        dots == {i \in 1..Len(b) : Char(b, i) = "."}
    IN  IF dots = {} THEN "" ELSE Drop(b, Max(dots) - 1)

\* strings.Split(s, "/") as a sequence of strings.
RECURSIVE SplitSlash(_)
SplitSlash(s) ==
    IF SlashPositions(s) = {} THEN <<s>>
    ELSE LET i == Min(SlashPositions(s))
         IN  <<Take(s, i - 1)>> \o SplitSlash(Drop(s, i))

RECURSIVE JoinSlash(_)
JoinSlash(segs) ==
    IF Len(segs) = 0 THEN ""
    ELSE IF Len(segs) = 1 THEN segs[1]
    ELSE segs[1] \o "/" \o JoinSlash(Tail(segs))

\* The element stack of filepath.Clean: "" and "." elements dropped, ".."
\* removing the element before it (dropped at the root, kept when leading).
RECURSIVE CleanStack(_, _, _)
CleanStack(segs, out, rooted) ==
    IF Len(segs) = 0 THEN out
    ELSE LET e == Head(segs)
             rest == Tail(segs)
         IN  IF e = "" \/ e = "." THEN CleanStack(rest, out, rooted)
             ELSE IF e = ".."
             THEN IF Len(out) > 0 /\ out[Len(out)] # ".."
                  THEN CleanStack(rest, SubSeq(out, 1, Len(out) - 1), rooted)
                  ELSE IF rooted THEN CleanStack(rest, out, rooted)
                  ELSE CleanStack(rest, Append(out, ".."), rooted)
             ELSE CleanStack(rest, Append(out, e), rooted)

\* filepath.Clean.
FilepathClean(path) ==
    IF path = "" THEN "."
    ELSE LET rooted == Char(path, 1) = "/"
             body == JoinSlash(CleanStack(SplitSlash(path), <<>>, rooted))
         IN  IF rooted THEN "/" \o body
             ELSE IF body = "" THEN "." ELSE body

\* filepath.Join(root, path) for a non-empty root.
FilepathJoin(root, path) == FilepathClean(root \o "/" \o path)

\* filepath.Match for patterns of literal bytes, "*" and "?" (a pattern with
\* a character class or an escape is outside the byte set of the model):
\* "*" matches any run of bytes other than "/", "?" one byte other than "/".
RECURSIVE FilepathMatch(_, _)
FilepathMatch(pattern, name) ==
    IF pattern = "" THEN name = ""
    ELSE LET p == Char(pattern, 1)
             rest == Drop(pattern, 1)
         IN  IF p = "*"
             THEN \E k \in 0..Len(name) :
                     /\ ~Contains(Take(name, k), "/")
                     /\ FilepathMatch(rest, Drop(name, k))
             ELSE IF p = "?"
             THEN /\ name # ""
                  /\ Char(name, 1) # "/"
                  /\ FilepathMatch(rest, Drop(name, 1))
             ELSE /\ name # ""
                  /\ Char(name, 1) = p
                  /\ FilepathMatch(rest, Drop(name, 1))

\* The bytes of the model in ASCII order: Ord compares as Go compares bytes.
AsciiTable == " ()*-./0123456789?ABCDEFGHIJKLMNOPQRSTUVWXYZ_abcdefghijklmnopqrstuvwxyz"

Ord(c) == CHOOSE i \in 1..Len(AsciiTable) : Char(AsciiTable, i) = c

UpperCase == "ABCDEFGHIJKLMNOPQRSTUVWXYZ"
LowerCase == "abcdefghijklmnopqrstuvwxyz"

\* strings.ToLower.
RECURSIVE ToLower(_)
ToLower(s) ==
    IF s = "" THEN ""
    ELSE LET c == Char(s, 1)
             up == {i \in 1..Len(UpperCase) : Char(UpperCase, i) = c}
         IN  (IF up = {} THEN c ELSE Char(LowerCase, CHOOSE i \in up : TRUE))
                 \o ToLower(Drop(s, 1))

\* a < b on Go strings: bytewise lexicographic.
RECURSIVE StrLess(_, _)
StrLess(a, b) ==
    IF b = "" THEN FALSE
    ELSE IF a = "" THEN TRUE
    ELSE IF Char(a, 1) = Char(b, 1) THEN StrLess(Drop(a, 1), Drop(b, 1))
    ELSE Ord(Char(a, 1)) < Ord(Char(b, 1))

\* The names of a set in increasing byte order (the order of os.ReadDir).
RECURSIVE SortedNames(_)
SortedNames(S) ==
    IF S = {} THEN <<>>
    ELSE LET m == CHOOSE n \in S : \A o \in S \ {n} : StrLess(n, o)
         IN  <<m>> \o SortedNames(S \ {m})

(***************************************************************************)
(* State.                                                                  *)
(***************************************************************************)
VARIABLES
    Folders,        \* config.Config.Folders: a sequence of Folder records
    Exclude,        \* config.Config.Exclude: the global patterns
    RepoExclude,    \* config.Config.RepoExclude: repo path -> patterns
    content,        \* what the host directories and the snapshots hold
    gitUp,          \* whether the git executable can be run at all
    response,       \* the body GetTree wrote for the request in progress
    call,           \* the backend or library call in progress (its arguments)
    result,         \* what that call returned
    watcher,        \* watcher.Watcher, its event loop and the call of Stop
    ws              \* handler.WSHandler, its connections and their handlers

cfgVars == <<Folders, Exclude, RepoExclude>>
envVars == <<content, gitUp>>
callVars == <<call, result>>
liveVars == <<watcher, ws>>
vars == <<Folders, Exclude, RepoExclude, content, gitUp, response, call, result, watcher, ws>>

\* No request, no call in progress.
None == [kind |-> "none"]

(***************************************************************************)
(* The environment: the host file system and the git repositories.         *)
(* A content is what one directory tree holds: files and dirs are paths    *)
(* relative to its root, broken the paths on which the host reports an     *)
(* I/O error.  Every root of Roots is a directory of the host and a git    *)
(* repository whose refs of GitRefs resolve to a snapshot of the files.    *)
(***************************************************************************)

Roots == {"/r", "/s"}
GitRefs == {"main", "v1"}

\* The directories above a relative path.
Ancestors(p) == {Take(p, i - 1) : i \in SlashPositions(p)}

\* The directory a relative path lies in ("" is the root).
Parent(p) ==
    IF SlashPositions(p) = {} THEN "" ELSE Take(p, Max(SlashPositions(p)) - 1)

\* A content of the host below each root: the files, the directories, the
\* paths the host fails on, and the symbolic links ([name, target], each to
\* a directory of the same root).
MkContent(files, emptyDirs, broken) ==
    [files |-> files,
     dirs |-> emptyDirs \cup UNION {Ancestors(p) : p \in files \cup emptyDirs},
     broken |-> broken,
     links |-> {}]

\* The path the host follows a relative path to: a symbolic link on the way
\* is replaced by its target.
Resolved(rel) ==
    LET on == {l \in content.links : rel = l.name \/ HasPrefix(rel, l.name \o "/")}
    IN  IF on = {} THEN rel
        ELSE LET l == CHOOSE l \in on : TRUE
             IN  l.target \o Drop(rel, Len(l.name))

\* A snapshot holds the files and the directories above them, nothing else.
Snapshot(ref) == MkContent(content.files, {}, {})

ErrNotExist == "ErrNotExist"
ErrPermission == "ErrPermission"

\* What the host holds at an absolute, cleaned path: "dir", "file", "none".
HostKind(abs) ==
    IF abs = "/" \/ abs \in Roots THEN "dir"
    ELSE LET under == {r \in Roots : HasPrefix(abs, r \o "/")}
         IN  IF under = {} THEN "none"
             ELSE LET rel == Resolved(Drop(abs, Len(CHOOSE r \in under : TRUE) + 1))
                  IN  IF rel \in content.dirs THEN "dir"
                      ELSE IF rel \in content.files THEN "file"
                      ELSE "none"

\* Whether the entry at an absolute path is itself a symbolic link.
HostIsLink(abs) ==
    \E r \in Roots : \E l \in content.links :
        /\ HasPrefix(abs, r \o "/")
        /\ baseName(abs) = baseName(l.name)
        /\ Resolved(Parent(Drop(abs, Len(r) + 1))) = Parent(l.name)

HostBroken(abs) ==
    \E r \in Roots : \E b \in content.broken : abs = r \o "/" \o b

\* The errno of a path the host does not hold: ENOTDIR below a file.
HostMissingErr(abs) ==
    IF \E a \in Ancestors(abs) : HostKind(a) = "file" THEN "ENOTDIR"
    ELSE ErrNotExist

\* The absolute paths of the entries directly inside a host directory,
\* the symbolic links among them.
HostChildren(abs) ==
    IF abs = "/" THEN Roots
    ELSE {abs \o "/" \o baseName(e) :
            e \in {e \in content.dirs \cup content.files
                            \cup {l.name : l \in content.links} :
                     \E r \in Roots :
                        /\ abs = r \/ HasPrefix(abs, r \o "/")
                        /\ Resolved(Drop(abs, Len(r) + 1)) = Parent(e)}}

\* os.Stat.
OsStat(abs) ==
    IF HostBroken(abs) THEN [err |-> "EIO"]
    ELSE IF HostKind(abs) = "none" THEN [err |-> HostMissingErr(abs)]
    ELSE [err |-> "", Name |-> FilepathBase(abs), IsDir |-> HostKind(abs) = "dir"]

\* os.ReadDir: the entries sorted by file name.  IsDir of an entry is the
\* type of the entry itself: a symbolic link is no directory.
OsReadDir(abs) ==
    IF HostBroken(abs) THEN [err |-> "EIO"]
    ELSE IF HostKind(abs) = "none" THEN [err |-> HostMissingErr(abs)]
    ELSE IF HostKind(abs) = "file" THEN [err |-> "ENOTDIR"]
    ELSE LET names == SortedNames({baseName(c) : c \in HostChildren(abs)})
         IN  [err |-> "",
              entries |-> [i \in 1..Len(names) |->
                  [Name |-> names[i],
                   IsDir |-> /\ HostKind(FilepathClean(abs \o "/" \o names[i])) = "dir"
                             /\ ~HostIsLink(FilepathClean(abs \o "/" \o names[i]))]]]

\* os.ReadFile.
OsReadFile(abs) ==
    IF HostBroken(abs) THEN [err |-> "EIO"]
    ELSE IF HostKind(abs) = "none" THEN [err |-> HostMissingErr(abs)]
    ELSE IF HostKind(abs) = "dir" THEN [err |-> "EISDIR"]
    ELSE [err |-> "", data |-> abs]

\* One line of `git ls-tree`: "<mode> <type> <hash>\t<name>".
LsLine(snap, p) ==
    [mode |-> IF p \in snap.dirs THEN "040000" ELSE "100644",
     type |-> IF p \in snap.dirs THEN "tree" ELSE "blob",
     hash |-> "0000000",
     name |-> p]

\* The lines of `git ls-tree <ref> [<pathspec>]` on a snapshot: the entry
\* the pathspec names, or with a trailing "/" the entries inside that tree.
LsTree(snap, pathspec) ==
    LET inside(d) == SortedNames({e \in snap.dirs \cup snap.files : Parent(e) = d})
        lines(ps) == [i \in 1..Len(ps) |-> LsLine(snap, ps[i])]
    IN  IF pathspec = "" THEN lines(inside(""))
        ELSE IF pathspec \in snap.dirs \cup snap.files THEN <<LsLine(snap, pathspec)>>
        ELSE IF /\ Char(pathspec, Len(pathspec)) = "/"
                /\ Take(pathspec, Len(pathspec) - 1) \in snap.dirs
        THEN lines(inside(Take(pathspec, Len(pathspec) - 1)))
        ELSE <<>>

\* Whether git finds a path argument outside the repository.
OutsideRepository(path) ==
    FilepathClean(path) = ".." \/ HasPrefix(FilepathClean(path), "../")

\* The pathspec as git ls-tree reads it: "." and ".." elements resolved, the
\* repository itself as "", a trailing "/" or "/." kept as a trailing "/".
NormalizedSpec(pathspec) ==
    IF FilepathClean(pathspec) = "." THEN ""
    ELSE IF Char(pathspec, Len(pathspec)) = "/"
            \/ (Len(pathspec) > 1 /\ Drop(pathspec, Len(pathspec) - 2) = "/.")
    THEN FilepathClean(pathspec) \o "/"
    ELSE FilepathClean(pathspec)

\* The stderr of `git show <ref>:<path>` for a path the snapshot lacks.
ShowMissing(repoPath, path) ==
    IF OutsideRepository(path) THEN "fatal: path is outside repository"
    ELSE IF HostKind(FilepathJoin(repoPath, path)) # "none"
    THEN "fatal: path exists on disk, but not in ref"
    ELSE "fatal: path does not exist in ref"

\* exec.Command("git", "-C", repoPath, args...).Output(): status "transport"
\* when the executable cannot be run, "exit" with its stderr when git exits
\* non-zero, "ok" with its stdout otherwise.
GitRun(repoPath, args) ==
    IF ~gitUp THEN [status |-> "transport"]
    ELSE IF repoPath \notin Roots
    THEN [status |-> "exit", stderr |-> "fatal: not a git repository"]
    ELSE IF args[1] = "rev-parse"
    THEN IF args[3] \in GitRefs THEN [status |-> "ok", out |-> <<args[3]>>]
         ELSE [status |-> "exit", stderr |-> "fatal: Needed a single revision"]
    ELSE IF args[1] = "ls-tree"
    THEN IF args[2] \notin GitRefs
         THEN [status |-> "exit", stderr |-> "fatal: Not a valid object name"]
         ELSE IF Len(args) > 2 /\ OutsideRepository(args[3])
         THEN [status |-> "exit", stderr |-> "fatal: path is outside repository"]
         ELSE [status |-> "ok",
               out |-> LsTree(Snapshot(args[2]),
                              IF Len(args) > 2 THEN NormalizedSpec(args[3]) ELSE "")]
    ELSE IF args[1] = "show"
    THEN LET colon == Min({i \in 1..Len(args[2]) : Char(args[2], i) = ":"})
             ref == Take(args[2], colon - 1)
             path == Drop(args[2], colon)
         IN  IF ref \notin GitRefs
             THEN [status |-> "exit", stderr |-> "fatal: invalid object name"]
             ELSE IF path \in Snapshot(ref).files \cup Snapshot(ref).dirs
             THEN [status |-> "ok", out |-> <<args[2]>>]
             ELSE [status |-> "exit", stderr |-> ShowMissing(repoPath, path)]
    ELSE [status |-> "exit", stderr |-> "unknown command"]

(***************************************************************************)
(* internal/fs: the FileSystem contract and its two implementations.  A    *)
(* result is a record whose err is "" on success.  Sizes and modification  *)
(* times are not part of the model.                                        *)
(***************************************************************************)

\* LocalFS.abs.
LocalFS_abs(l, path) ==
    IF path = "" \/ path = "." THEN l.root ELSE FilepathJoin(l.root, path)

LocalFS_ReadFile(l, path) == OsReadFile(LocalFS_abs(l, path))

LocalFS_Stat(l, path) == OsStat(LocalFS_abs(l, path))

LocalFS_ReadDir(l, path) == OsReadDir(LocalFS_abs(l, path))

\* GitFS.git: any failure of the command is an error, the transport failure
\* returned as it is and the exit as a formatted message.
GitFS_git(g, args) ==
    LET r == GitRun(g.root, args)
    IN  IF r.status = "transport" THEN [err |-> "exec: git: not found"]
        ELSE IF r.status = "exit" THEN [err |-> "git: " \o r.stderr]
        ELSE [err |-> "", out |-> r.out]

\* GitFS.ReadFile.
GitFS_ReadFile(g, path) ==
    IF path = "" \/ path = "." THEN [err |-> "cannot read directory as file"]
    ELSE LET r == GitRun(g.root, <<"show", g.ref \o ":" \o path>>)
         IN  IF r.status = "exit"
             THEN IF Contains(r.stderr, "does not exist") \/ Contains(r.stderr, "not exist")
                  THEN [err |-> ErrNotExist]
                  ELSE [err |-> "git show: " \o r.stderr]
             ELSE IF r.status = "transport" THEN [err |-> "exec: git: not found"]
             ELSE [err |-> "", data |-> r.out[1]]

\* strings.Fields of the output of ls-tree: four fields for each line.
LsFields(out) ==
    IF Len(out) = 0 THEN <<>>
    ELSE <<out[1].mode, out[1].type, out[1].hash, out[1].name>>

\* A variant of GitFS_StatListed without the listing with a trailing "/".
GitFS_StatListedOnce(objPath, first, second) ==
    IF first.err # "" THEN [err |-> ErrNotExist]
    ELSE IF Len(first.out) = 0 THEN [err |-> ErrNotExist]
    ELSE IF Len(LsFields(first.out)) < 4 THEN [err |-> ErrNotExist]
    ELSE [err |-> "", Name |-> baseName(objPath),
          IsDir |-> LsFields(first.out)[2] = "tree"]

\* GitFS.Stat on a path other than the root, from what git answered: first
\* to `ls-tree <ref> <objPath>`, second to `ls-tree <ref> <objPath>/`.
GitFS_StatListed(objPath, first, second) ==
    IF first.err # "" THEN [err |-> ErrNotExist]
    ELSE IF Len(first.out) = 0
    THEN IF second.err # "" \/ Len(second.out) = 0
         THEN [err |-> ErrNotExist]
         ELSE [err |-> "", Name |-> baseName(objPath), IsDir |-> TRUE]
    ELSE IF Len(LsFields(first.out)) < 4 THEN [err |-> ErrNotExist]
    ELSE [err |-> "", Name |-> baseName(objPath),
          IsDir |-> LsFields(first.out)[2] = "tree"]

\* GitFS.Stat.
GitFS_Stat(g, path) ==
    IF path = "" \/ path = "."
    THEN IF GitFS_git(g, <<"rev-parse", "--verify", g.ref>>).err # ""
         THEN [err |-> ErrNotExist]
         ELSE [err |-> "", Name |-> g.ref, IsDir |-> TRUE]
    ELSE GitFS_StatListed(path, GitFS_git(g, <<"ls-tree", g.ref, path>>),
                          GitFS_git(g, <<"ls-tree", g.ref, path \o "/">>))

\* GitFS.ReadDir.
GitFS_ReadDir(g, path) ==
    LET objPath == IF path = "" \/ path = "." THEN "" ELSE path
        lsPath == IF objPath = "" THEN "" ELSE objPath \o "/"
        r == IF lsPath = "" THEN GitFS_git(g, <<"ls-tree", g.ref>>)
             ELSE GitFS_git(g, <<"ls-tree", g.ref, lsPath>>)
    IN  IF r.err # "" THEN [err |-> ErrNotExist]
        ELSE [err |-> "",
              entries |-> [i \in 1..Len(r.out) |->
                  [Name |-> baseName(r.out[i].name), IsDir |-> r.out[i].type = "tree"]]]

\* fsForFolder.
fsForFolder(folder) ==
    IF folder.GitRef # ""
    THEN [kind |-> "git", root |-> folder.Path, ref |-> folder.GitRef]
    ELSE [kind |-> "local", root |-> folder.Path]

\* The dispatch of the FileSystem interface.
FS_ReadFile(fs, path) ==
    IF fs.kind = "git" THEN GitFS_ReadFile(fs, path) ELSE LocalFS_ReadFile(fs, path)

FS_Stat(fs, path) ==
    IF fs.kind = "git" THEN GitFS_Stat(fs, path) ELSE LocalFS_Stat(fs, path)

FS_ReadDir(fs, path) ==
    IF fs.kind = "git" THEN GitFS_ReadDir(fs, path) ELSE LocalFS_ReadDir(fs, path)

(***************************************************************************)
(* internal/config: the predicates of Config the tree constructor calls.   *)
(***************************************************************************)

\* DefaultConfig: the recognized extensions and the global patterns.
Extensions == <<".md", ".markdown">>
DefaultExclude == <<"node_modules", ".git", ".svn">>

\* Config.IsExcluded.
IsExcluded(path) ==
    \E i \in 1..Len(Exclude) : FilepathMatch(Exclude[i], FilepathBase(path))

\* A variant of PatternExcludes without the glob against the relative path.
PatternExcludesBaseOnly(pattern, relPath) ==
    \/ FilepathMatch(pattern, FilepathBase(relPath))
    \/ relPath = FilepathClean(pattern)
    \/ HasPrefix(relPath, FilepathClean(pattern) \o "/")

\* One pattern of Config.IsFolderExcluded: the glob against the relative
\* path, the glob against the base name, the exact or directory-prefix match.
PatternExcludes(pattern, relPath) ==
    \/ FilepathMatch(pattern, relPath)
    \/ FilepathMatch(pattern, FilepathBase(relPath))
    \/ relPath = FilepathClean(pattern)
    \/ HasPrefix(relPath, FilepathClean(pattern) \o "/")

\* Config.IsFolderExcluded.
IsFolderExcluded(relPath, folderExcludes) ==
    \E i \in 1..Len(folderExcludes) : PatternExcludes(folderExcludes[i], relPath)

\* Config.IsMarkdownFile.
IsMarkdownFile(path) ==
    \E i \in 1..Len(Extensions) : FilepathExt(path) = Extensions[i]

\* The RepoExclude map without a key.
NoRepoExclude == [k \in {} |-> <<>>]

\* Config.GetRepoExclude: the patterns of a repo path, none for a missing key.
GetRepoExclude(repoPath) ==
    IF repoPath \in DOMAIN RepoExclude THEN RepoExclude[repoPath] ELSE <<>>

(***************************************************************************)
(* internal/handler/tree.go: the tree constructor.                         *)
(***************************************************************************)

\* A variant of nodePath that qualifies the base name alone.
nodePathBase(folderAlias, relativePath) ==
    IF relativePath # "" THEN folderAlias \o "/" \o baseName(relativePath)
    ELSE relativePath

\* A variant of nodePath that gives the root the alias as its path.
nodePathAliasAtRoot(folderAlias, relativePath) ==
    IF relativePath # "" THEN folderAlias \o "/" \o relativePath ELSE folderAlias

\* buildTree: the logical path of the node built for relativePath.
nodePath(folderAlias, relativePath) ==
    IF relativePath # "" THEN folderAlias \o "/" \o relativePath ELSE relativePath

\* buildTree: the path of a child relative to the root of the backend.
childPath(relativePath, name) ==
    IF relativePath = "" THEN name ELSE relativePath \o "/" \o name

\* buildTree: the less function given to sort.Slice.
entryLess(a, b) ==
    IF a.IsDir # b.IsDir THEN a.IsDir
    ELSE StrLess(ToLower(a.Name), ToLower(b.Name))

\* sort.Slice(entries, entryLess).  No two entries of one directory of the
\* model have names equal up to case, so the order is the only sorted one.
RECURSIVE sortEntries(_)
sortEntries(entries) ==
    IF Len(entries) = 0 THEN <<>>
    ELSE LET S == 1..Len(entries)
             m == CHOOSE i \in S : \A j \in S \ {i} : ~entryLess(entries[j], entries[i])
         IN  <<entries[m]>> \o
             sortEntries(SubSeq(entries, 1, m - 1) \o SubSeq(entries, m + 1, Len(entries)))

\* A variant of skipEntry that leaves out the folder-level patterns.
skipEntryGlobalOnly(entry, path, folderExcludes) ==
    \/ IsExcluded(entry.Name)
    \/ (~entry.IsDir /\ ~IsMarkdownFile(entry.Name))

\* buildTree: the three filters a listed entry must pass to be built.
skipEntry(entry, path, folderExcludes) ==
    \/ IsExcluded(entry.Name)
    \/ IsFolderExcluded(path, folderExcludes)
    \/ (~entry.IsDir /\ ~IsMarkdownFile(entry.Name))

\* A variant of isEmptyDirectory that prunes nothing.
keepEmptyDirectory(child) == FALSE

\* buildTree: "Skip empty directories".
isEmptyDirectory(child) ==
    child.Type = "directory" /\ Len(child.Children) = 0

\* The node buildTree creates from the metadata of relativePath.
newNode(info, folderID, folderAlias, relativePath) ==
    [Name |-> info.Name,
     Type |-> IF info.IsDir THEN "directory" ELSE "file",
     Path |-> nodePath(folderAlias, relativePath),
     Alias |-> "",
     FolderID |-> folderID,
     Children |-> <<>>,
     IsRepoGroup |-> FALSE]

\* A variant of appendChild in which a failed build ends the loop: the
\* children built so far are kept, the entries behind are not visited.
appendChildAbort(child, rest) ==
    IF child.err # "" THEN <<>>
    ELSE IF child.node.Type = "directory" /\ Len(child.node.Children) = 0 THEN rest
    ELSE <<child.node>> \o rest

\* buildTree: what the loop does with a built child: a failed build and an
\* empty directory are skipped, any other child is appended.
appendChild(child, rest) ==
    IF child.err # "" THEN rest
    ELSE IF isEmptyDirectory(child.node) THEN rest
    ELSE <<child.node>> \o rest

\* buildTree returns [err, node].  buildChildren is its loop over the sorted
\* entries of a directory and returns the nodes appended to Children;
\* buildStat and buildDir are buildTree after its call of Stat and of ReadDir.
RECURSIVE buildTree(_, _, _, _, _)
RECURSIVE buildChildren(_, _, _, _, _, _)
buildChildren(fs, relativePath, entries, folderID, folderAlias, folderExcludes) ==
    IF Len(entries) = 0 THEN <<>>
    ELSE IF skipEntry(Head(entries), childPath(relativePath, Head(entries).Name),
                      folderExcludes)
    THEN buildChildren(fs, relativePath, Tail(entries), folderID, folderAlias,
                       folderExcludes)
    ELSE appendChild(
             buildTree(fs, childPath(relativePath, Head(entries).Name), folderID,
                       folderAlias, folderExcludes),
             buildChildren(fs, relativePath, Tail(entries), folderID, folderAlias,
                           folderExcludes))

buildDir(listing, node, fs, relativePath, folderAlias, folderExcludes) ==
    IF listing.err # "" THEN [err |-> listing.err]
    ELSE [err |-> "",
          node |-> [node EXCEPT !.Children =
              buildChildren(fs, relativePath, sortEntries(listing.entries),
                            node.FolderID, folderAlias, folderExcludes)]]

buildStat(info, fs, relativePath, folderID, folderAlias, folderExcludes) ==
    IF info.err # "" THEN [err |-> info.err]
    ELSE IF ~info.IsDir
    THEN [err |-> "", node |-> newNode(info, folderID, folderAlias, relativePath)]
    ELSE buildDir(FS_ReadDir(fs, relativePath),
                  newNode(info, folderID, folderAlias, relativePath),
                  fs, relativePath, folderAlias, folderExcludes)

buildTree(fs, relativePath, folderID, folderAlias, folderExcludes) ==
    buildStat(FS_Stat(fs, relativePath), fs, relativePath, folderID, folderAlias,
              folderExcludes)

\* GetTree: the exclusion list of a folder, repo-level before folder-level.
mergedExcludes(folder) == GetRepoExclude(folder.Path) \o folder.Exclude

\* GetTree: a folder whose build fails is left out, the root of any other
\* is named after the alias and appended.
appendRoot(tree, folder, folderID, rest) ==
    IF tree.err # "" THEN rest
    ELSE <<[tree.node EXCEPT !.Name = folder.Alias,
                             !.Alias = folder.Alias,
                             !.FolderID = folderID]>> \o rest

\* GetTree: the loop over the folders from the i-th (whose FolderID is i - 1).
RECURSIVE rawRootsFrom(_)
rawRootsFrom(i) ==
    IF i > Len(Folders) THEN <<>>
    ELSE appendRoot(buildTree(fsForFolder(Folders[i]), Folders[i].SubPath, i - 1,
                              Folders[i].Alias, mergedExcludes(Folders[i])),
                    Folders[i], i - 1, rawRootsFrom(i + 1))

rawRoots == rawRootsFrom(1)

(***************************************************************************)
(* internal/handler/tree.go: the repo grouper and the tree response.       *)
(***************************************************************************)

\* A variant of isBucketed that buckets the roots of ref-less folders too.
isBucketedAnyRef(node) == node.FolderID < Len(Folders)

\* groupByRepo: whether a root goes to a bucket (its folder has a GitRef)
\* rather than to the standalone list.
isBucketed(node) ==
    /\ node.FolderID < Len(Folders)
    /\ Folders[node.FolderID + 1].GitRef # ""

\* groupByRepo: the key of the bucket of a root.
bucketKey(node) == Folders[node.FolderID + 1].Path

\* groupByRepo: the repo paths in first-seen order.
RECURSIVE firstSeenOrder(_, _)
firstSeenOrder(roots, seen) ==
    IF Len(roots) = 0 THEN <<>>
    ELSE LET node == Head(roots)
         IN  IF isBucketed(node) /\ bucketKey(node) \notin seen
             THEN <<bucketKey(node)>> \o
                  firstSeenOrder(Tail(roots), seen \cup {bucketKey(node)})
             ELSE firstSeenOrder(Tail(roots), seen)

\* groupByRepo: repoMap[repoPath], the roots of one repo path in input order.
RECURSIVE bucketOf(_, _)
bucketOf(roots, repoPath) ==
    IF Len(roots) = 0 THEN <<>>
    ELSE LET node == Head(roots)
         IN  IF isBucketed(node) /\ bucketKey(node) = repoPath
             THEN <<node>> \o bucketOf(Tail(roots), repoPath)
             ELSE bucketOf(Tail(roots), repoPath)

\* groupByRepo: the roots kept as they are, after the buckets.
RECURSIVE standaloneOf(_)
standaloneOf(roots) ==
    IF Len(roots) = 0 THEN <<>>
    ELSE IF isBucketed(Head(roots)) THEN standaloneOf(Tail(roots))
    ELSE <<Head(roots)>> \o standaloneOf(Tail(roots))

\* groupByRepo: the virtual parent node of a repo.
groupNode(repoPath, entries) ==
    [Name |-> FilepathBase(repoPath),
     Type |-> "directory",
     Path |-> "",
     Alias |-> "",
     FolderID |-> 0,
     Children |-> entries,
     IsRepoGroup |-> TRUE]

\* A variant of emitBucket that wraps a bucket of one root too.
emitBucketGrouped(repoPath, entries) == groupNode(repoPath, entries)

\* groupByRepo: what one bucket emits.
emitBucket(repoPath, entries) ==
    IF Len(entries) = 1 THEN entries[1] ELSE groupNode(repoPath, entries)

\* A variant of groupByRepo that emits the standalone roots first.
groupByRepoStandaloneFirst(roots) ==
    LET order == firstSeenOrder(roots, {})
    IN  standaloneOf(roots) \o
            [i \in 1..Len(order) |-> emitBucket(order[i], bucketOf(roots, order[i]))]

\* groupByRepo.
groupByRepo(roots) ==
    LET order == firstSeenOrder(roots, {})
    IN  [i \in 1..Len(order) |-> emitBucket(order[i], bucketOf(roots, order[i]))]
            \o standaloneOf(roots)

\* A variant of treeBody that wraps a single root too.
treeBodyWrapped(roots) == [Type |-> "root", Children |-> roots]

\* GetTree: the body of the response for the grouped roots.
treeBody(roots) ==
    IF Len(roots) = 1 THEN roots[1] ELSE [Type |-> "root", Children |-> roots]

(***************************************************************************)
(* The handlers.  Requests are served one at a time: GetTree writes the    *)
(* response, Reply is its return (the tree is discarded after              *)
(* serialization).  A request the handler rejects changes nothing.         *)
(***************************************************************************)

\* The bound on the number of configured folders.
MaxFolders == 3

\* GetTree after its loop: the roots are grouped and the body written.  The
\* roots it grouped are kept beside the body.
treeResponse(roots) ==
    [kind |-> "tree", rawRoots |-> roots, body |-> treeBody(groupByRepo(roots))]

\* TreeHandler.GetTree.
GetTree ==
    /\ response = None
    /\ response' = treeResponse(rawRoots)
    /\ UNCHANGED <<liveVars, cfgVars, envVars, callVars>>

Reply ==
    /\ response # None
    /\ response' = None
    /\ UNCHANGED <<liveVars, cfgVars, envVars, callVars>>

\* Config.AddFolder: the folder list after the call.
ConfigAddFolder(path, alias, gitRef, subPath, exclude) ==
    LET absPath == FilepathClean(path)
        base == FilepathBase(absPath)
        newAlias == IF alias # "" THEN alias
                    ELSE IF gitRef # "" THEN base \o " (" \o gitRef \o ")"
                    ELSE base
    IN  IF \E i \in 1..Len(Folders) :
              /\ Folders[i].Path = absPath
              /\ Folders[i].GitRef = gitRef
              /\ Folders[i].SubPath = subPath
        THEN Folders
        ELSE Append(Folders, [Path |-> absPath, Alias |-> newAlias, GitRef |-> gitRef,
                              SubPath |-> subPath, Exclude |-> exclude])

\* TreeHandler.AddFolder: the path must be a host directory and a given
\* sub-path must exist in the backend of the new folder.
AddFolder(path, alias, gitRef, subPath, exclude) ==
    /\ response = None
    /\ Len(Folders) < MaxFolders
    /\ OsStat(path).err = ""
    /\ OsStat(path).IsDir
    /\ subPath # "" =>
          FS_Stat(fsForFolder([Path |-> path, GitRef |-> gitRef]), subPath).err = ""
    /\ Folders' = ConfigAddFolder(path, alias, gitRef, subPath, exclude)
    /\ UNCHANGED <<liveVars, Exclude, RepoExclude, envVars, response, callVars>>

\* TreeHandler.UpdateFolder and Config.UpdateFolderByIndex (0-based index).
UpdateFolder(index, alias, gitRef, subPath, exclude) ==
    /\ response = None
    /\ alias # ""
    /\ index >= 0 /\ index < Len(Folders)
    /\ Folders' = [Folders EXCEPT ![index + 1] =
                      [@ EXCEPT !.Alias = alias, !.GitRef = gitRef,
                                !.SubPath = subPath, !.Exclude = exclude]]
    /\ UNCHANGED <<liveVars, Exclude, RepoExclude, envVars, response, callVars>>

\* TreeHandler.RemoveFolder and Config.RemoveFolderByIndex (0-based index).
RemoveFolder(index) ==
    /\ response = None
    /\ index >= 0 /\ index < Len(Folders)
    /\ Folders' = SubSeq(Folders, 1, index) \o SubSeq(Folders, index + 2, Len(Folders))
    /\ UNCHANGED <<liveVars, Exclude, RepoExclude, envVars, response, callVars>>

\* TreeHandler.UpdateRepoExclude and Config.SetRepoExclude.
UpdateRepoExclude(path, patterns) ==
    /\ response = None
    /\ path # ""
    /\ RepoExclude' =
          IF Len(patterns) = 0
          THEN [k \in DOMAIN RepoExclude \ {path} |-> RepoExclude[k]]
          ELSE [k \in DOMAIN RepoExclude \cup {path} |->
                   IF k = path THEN patterns ELSE RepoExclude[k]]
    /\ UNCHANGED <<liveVars, Folders, Exclude, envVars, response, callVars>>

\* TreeHandler.UpdateGlobalExclude and Config.SetGlobalExclude.
UpdateGlobalExclude(patterns) ==
    /\ response = None
    /\ Exclude' = patterns
    /\ UNCHANGED <<liveVars, Folders, RepoExclude, envVars, response, callVars>>

\* Config.migrateLegacyPath: the folder list of a server started on one path.
LegacyFolders(path) ==
    <<[Path |-> FilepathClean(path), Alias |-> FilepathBase(FilepathClean(path)),
       GitRef |-> "", SubPath |-> "", Exclude |-> <<>>]>>

(***************************************************************************)
(* Spec: folders are added and removed and the tree is requested.  The     *)
(* folders differ in root, ref and sub-path; the ref "gone" resolves to    *)
(* nothing.                                                                *)
(***************************************************************************)

GroupContent == MkContent({"README.md", "doc/guide.md"}, {}, {})
AddRefs == {"", "main", "v1", "gone"}
AddSubPaths == {"", "doc"}

Init ==
    /\ Folders = LegacyFolders("/r")
    /\ Exclude = DefaultExclude
    /\ RepoExclude = NoRepoExclude
    /\ content = GroupContent
    /\ gitUp = TRUE
    /\ response = None
    /\ call = None
    /\ result = None
    /\ watcher = None
    /\ ws = None

Next ==
    \/ \E path \in Roots, gitRef \in AddRefs, subPath \in AddSubPaths :
          AddFolder(path, "", gitRef, subPath, <<>>)
    \/ \E index \in 0..(MaxFolders - 1) : RemoveFolder(index)
    \/ GetTree
    \/ Reply

Spec == Init /\ [][Next]_vars
(***************************************************************************)
(* Properties of the repo grouper and of the tree response, under Spec.    *)
(* They are read off the response in progress: the roots GetTree built     *)
(* (one tree for each folder whose build succeeded, in the order of the    *)
(* configuration) and the body it wrote.                                   *)
(***************************************************************************)

\* The folder a built root belongs to, and whether that folder has a ref.
folderOf(node) == Folders[node.FolderID + 1]
hasRef(node) == folderOf(node).GitRef # ""

\* The top-level nodes of a response body.
topLevel(body) == IF body.Type = "root" THEN body.Children ELSE <<body>>

\* The trees of a top-level list: the children of a group in its place.
RECURSIVE flatten(_)
flatten(nodes) ==
    IF Len(nodes) = 0 THEN <<>>
    ELSE (IF Head(nodes).IsRepoGroup THEN Head(nodes).Children ELSE <<Head(nodes)>>)
             \o flatten(Tail(nodes))

\* The folders (1-based positions) that have a ref and the root location p.
configuredWithRef(p) ==
    {i \in 1..Len(Folders) : Folders[i].GitRef # "" /\ Folders[i].Path = p}

\* The built roots of the folders with a ref and the root location p, in order.
treesWithRef(roots, p) ==
    SelectSeq(roots, LAMBDA t : hasRef(t) /\ folderOf(t).Path = p)

\* The top-level group nodes that hold a tree of the root location p.
groupsFor(top, p) ==
    {i \in 1..Len(top) :
        /\ top[i].IsRepoGroup
        /\ \E k \in 1..Len(top[i].Children) : folderOf(top[i].Children[k]).Path = p}

\* What is said of a root location p counted with n sources whose trees are
\* trees: one group of these n trees in order when n >= 2, no group and the
\* tree at top level as it was built when n = 1.
GroupedAsOne(top, p, n, trees) ==
    /\ n >= 2 =>
          /\ Cardinality(groupsFor(top, p)) = 1
          /\ \A i \in groupsFor(top, p) :
                /\ top[i].Name = FilepathBase(p)
                /\ Len(top[i].Children) = n
                /\ top[i].Children = trees
    /\ n = 1 =>
          /\ groupsFor(top, p) = {}
          /\ \A k \in 1..Len(trees) : \E i \in 1..Len(top) : top[i] = trees[k]

\* C2 as the specification states it: the N of a root location counts the
\* configured sources with a ref; N >= 2 gives one group node with exactly N
\* children in configuration order, N = 1 no group node.
C2_GroupOfConfiguredSources ==
    response.kind = "tree" =>
        \A p \in Roots :
            GroupedAsOne(topLevel(response.body), p,
                         Cardinality(configuredWithRef(p)),
                         treesWithRef(response.rawRoots, p))

\* C2, amended: the N of a root location counts the sources with a ref whose
\* tree was built (a source whose build fails has no tree); N >= 2 gives
\* exactly one group node, flag set, named after the last segment of the
\* root, whose children are these N trees in configuration order, and N = 1
\* gives no group node and the tree unchanged at top level.
C2_GroupOfBuiltTrees ==
    response.kind = "tree" =>
        \A p \in Roots :
            GroupedAsOne(topLevel(response.body), p,
                         Len(treesWithRef(response.rawRoots, p)),
                         treesWithRef(response.rawRoots, p))

\* A response with a group of two trees for a root location that three
\* sources with a ref are configured on.
C2_Witness ==
    /\ response.kind = "tree"
    /\ \E p \in Roots :
          /\ Len(treesWithRef(response.rawRoots, p)) = 2
          /\ Cardinality(configuredWithRef(p)) = 3
          /\ groupsFor(topLevel(response.body), p) # {}

\* C3 as the specification states it: two trees are children of one group
\* node only if their sources have the same root location and different
\* refs, and the tree of a source without a ref is in no group.
C3_MergedOnlyWithDifferentRefs ==
    response.kind = "tree" =>
        \A i \in 1..Len(topLevel(response.body)) :
            topLevel(response.body)[i].IsRepoGroup =>
                \A a, b \in 1..Len(topLevel(response.body)[i].Children) :
                    /\ hasRef(topLevel(response.body)[i].Children[a])
                    /\ a # b =>
                          /\ folderOf(topLevel(response.body)[i].Children[a]).Path
                               = folderOf(topLevel(response.body)[i].Children[b]).Path
                          /\ folderOf(topLevel(response.body)[i].Children[a]).GitRef
                               # folderOf(topLevel(response.body)[i].Children[b]).GitRef

\* C3, amended: two trees are children of one group node only if their
\* sources have the same root location and each has a ref (the refs may be
\* the same one), and the tree of a source without a ref is in no group.
C3_MergedOnlyWithSameRoot ==
    response.kind = "tree" =>
        \A i \in 1..Len(topLevel(response.body)) :
            topLevel(response.body)[i].IsRepoGroup =>
                \A a, b \in 1..Len(topLevel(response.body)[i].Children) :
                    /\ hasRef(topLevel(response.body)[i].Children[a])
                    /\ folderOf(topLevel(response.body)[i].Children[a]).Path
                         = folderOf(topLevel(response.body)[i].Children[b]).Path

\* A response with a group of two trees of one ref (their sub-paths differ)
\* next to the tree of a source without a ref on the same root location.
C3_Witness ==
    /\ response.kind = "tree"
    /\ \E i, j \in 1..Len(topLevel(response.body)) :
          /\ topLevel(response.body)[i].IsRepoGroup
          /\ ~topLevel(response.body)[j].IsRepoGroup
          /\ ~hasRef(topLevel(response.body)[j])
          /\ groupsFor(topLevel(response.body),
                       folderOf(topLevel(response.body)[j]).Path) = {i}
          /\ Len(topLevel(response.body)[i].Children) = 2
          /\ folderOf(topLevel(response.body)[i].Children[1]).GitRef
               = folderOf(topLevel(response.body)[i].Children[2]).GitRef

\* Whether a top-level entry stands for a root location with refs (a group
\* node or the tree of a source with a ref), and that root location.
entryHasRef(e) == e.IsRepoGroup \/ hasRef(e)
entryRoot(e) == IF e.IsRepoGroup THEN folderOf(e.Children[1]).Path ELSE folderOf(e).Path

\* The position in the input of the first tree with a ref of root location p.
firstSeen(roots, p) ==
    Min({j \in 1..Len(roots) : hasRef(roots[j]) /\ folderOf(roots[j]).Path = p})

\* The order of a top-level list top made from the input trees roots.
GroupedOrder(top, roots) ==
    /\ \A i, j \in 1..Len(top) :
          i < j /\ entryHasRef(top[j]) =>
              /\ entryHasRef(top[i])
              /\ firstSeen(roots, entryRoot(top[i])) < firstSeen(roots, entryRoot(top[j]))
    /\ SelectSeq(top, LAMBDA e : ~entryHasRef(e)) = SelectSeq(roots, LAMBDA t : ~hasRef(t))

\* Every input tree is once in the top-level list or in its groups.
EachTreeOnce(top, roots) ==
    /\ Len(flatten(top)) = Len(roots)
    /\ \A j \in 1..Len(roots) :
          Cardinality({k \in 1..Len(flatten(top)) : flatten(top)[k] = roots[j]}) = 1

\* C4: the top-level list holds first the entries of the root locations with
\* refs (a group node or the single tree), in the order in which each root
\* location is first seen among the input trees, which are in configuration
\* order, then the trees of the sources without a ref in configuration
\* order; every input tree is exactly once at top level or the child of
\* exactly one group node.
C4_TopLevelOrder ==
    response.kind = "tree" =>
        /\ GroupedOrder(topLevel(response.body), response.rawRoots)
        /\ EachTreeOnce(topLevel(response.body), response.rawRoots)

\* A response whose first top-level node is a group although the first input
\* tree is the tree of a source without a ref, which comes after the group.
C4_Witness ==
    /\ response.kind = "tree"
    /\ Len(response.rawRoots) = 3
    /\ ~hasRef(response.rawRoots[1])
    /\ Len(topLevel(response.body)) = 2
    /\ topLevel(response.body)[1].IsRepoGroup
    /\ topLevel(response.body)[2] = response.rawRoots[1]

\* What is said of a body written for the top-level nodes top, of which
\* wrapped tells when a forest root is to be expected.
BodyAsClaimed(body, top, wrapped) ==
    /\ (body.Type = "root") <=> wrapped
    /\ body.Type = "root" => body.Children = top
    /\ body.Type # "root" => \E i \in 1..Len(top) : body = top[i]

\* C5 as the specification states it: the body is a forest root (type
\* "root") only if more than one top-level node remains after grouping, and
\* in every other case it is a top-level node itself.
C5_ForestRootOnlyForSeveral ==
    response.kind = "tree" =>
        BodyAsClaimed(response.body, groupByRepo(response.rawRoots),
                      Len(groupByRepo(response.rawRoots)) > 1)

\* C5, amended: the body is a forest root (type "root") holding the
\* top-level nodes exactly when the number of top-level nodes that remain
\* after grouping is not one, so also when none remains; when exactly one
\* remains the body is that node itself.
C5_ForestRootUnlessSingle ==
    response.kind = "tree" =>
        BodyAsClaimed(response.body, groupByRepo(response.rawRoots),
                      Len(groupByRepo(response.rawRoots)) # 1)

\* A response that is a forest root over a group node and another node.
C5_Witness ==
    /\ response.kind = "tree"
    /\ response.body.Type = "root"
    /\ Len(response.body.Children) >= 2
    /\ \E i \in 1..Len(response.body.Children) : response.body.Children[i].IsRepoGroup

(***************************************************************************)
(* SpecTree: one folder on "/r" whose directory holds any content of        *)
(* TreeContents.  The folder is updated (alias, ref, sub-path, patterns),  *)
(* the repo-level and the global patterns are set, the tree is requested.  *)
(***************************************************************************)

\* The bound on the number of files of a content.
MaxFiles == 3

FileUniverse ==
    {"README.md", "notes.txt", "doc/README.md", "doc/sub/deep.markdown",
     "tmp/x.txt", "node_modules/pkg.md"}
EmptyDirChoices == {{}, {"void/inner"}}
BrokenUniverse == {"doc", "doc/README.md"}

\* The contents: at most MaxFiles files, with or without a directory that
\* holds an empty directory only, with at most one path the host fails on.
TreeContents ==
    UNION {{MkContent(f, e, b) :
               e \in EmptyDirChoices,
               b \in {{}} \cup {{x} : x \in BrokenUniverse \cap (f \cup MkContent(f, {}, {}).dirs)}} :
           f \in {f \in SUBSET FileUniverse : Cardinality(f) <= MaxFiles}}

TreeAliases == {"A"}
TreeRefs == {"", "main"}
TreeSubPaths == {"", "doc"}
FolderExcludeChoices == {<<>>, <<"doc/*">>, <<"README.md">>}
RepoExcludeChoices == {<<>>, <<"doc/sub">>}
GlobalExcludeChoices == {DefaultExclude, <<>>}

InitTree ==
    /\ Folders = LegacyFolders("/r")
    /\ Exclude = DefaultExclude
    /\ RepoExclude = NoRepoExclude
    /\ content \in TreeContents
    /\ gitUp = TRUE
    /\ response = None
    /\ call = None
    /\ result = None
    /\ watcher = None
    /\ ws = None

NextTree ==
    \/ \E alias \in TreeAliases, gitRef \in TreeRefs, subPath \in TreeSubPaths,
          exclude \in FolderExcludeChoices :
          UpdateFolder(0, alias, gitRef, subPath, exclude)
    \/ \E patterns \in RepoExcludeChoices : UpdateRepoExclude("/r", patterns)
    \/ \E patterns \in GlobalExcludeChoices : UpdateGlobalExclude(patterns)
    \/ GetTree
    \/ Reply

SpecTree == InitTree /\ [][NextTree]_vars

(***************************************************************************)
(* Properties of the tree constructor, under SpecTree.  They are read off  *)
(* the roots of the response in progress: at most one tree, the tree of    *)
(* the folder, none when its build failed.                                 *)
(***************************************************************************)

\* The nodes of a tree in the order of a depth-first walk, the root first.
RECURSIVE nodesOf(_)
RECURSIVE nodesOfAll(_)
nodesOfAll(nodes) ==
    IF Len(nodes) = 0 THEN <<>> ELSE nodesOf(Head(nodes)) \o nodesOfAll(Tail(nodes))

nodesOf(node) == <<node>> \o nodesOfAll(node.Children)

\* The logical paths of the nodes of a tree.
pathsOf(tree) == {nodesOf(tree)[k].Path : k \in 1..Len(nodesOf(tree))}

\* No directory node among the nodes from the from-th on is without a child.
NoEmptyDirectory(nodes, from) ==
    \A k \in from..Len(nodes) :
        nodes[k].Type = "directory" => Len(nodes[k].Children) > 0

\* C1 as the specification states it: no directory node of a constructed
\* tree, the root node of the source included, has an empty children list.
C1_NoEmptyDirectory ==
    response.kind = "tree" =>
        \A r \in 1..Len(response.rawRoots) :
            NoEmptyDirectory(nodesOf(response.rawRoots[r]), 1)

\* C1, amended: every directory node of a constructed tree other than the
\* root node of the source has at least one child (the root node is kept
\* when nothing under it survives).
C1_NoEmptyDirectoryBelowRoot ==
    response.kind = "tree" =>
        \A r \in 1..Len(response.rawRoots) :
            NoEmptyDirectory(nodesOf(response.rawRoots[r]), 2)

\* A tree from which a listed directory that no pattern excludes is missing
\* because nothing under it survived, while another directory is in it.
C1_Witness ==
    /\ response.kind = "tree"
    /\ Len(response.rawRoots) = 1
    /\ Folders[1].SubPath = ""
    /\ \E k \in 2..Len(nodesOf(response.rawRoots[1])) :
          nodesOf(response.rawRoots[1])[k].Type = "directory"
    /\ \E d \in content.dirs \ content.broken :
          /\ Parent(d) = ""
          /\ ~IsExcluded(d)
          /\ ~IsFolderExcluded(d, mergedExcludes(Folders[1]))
          /\ (Folders[1].Alias \o "/" \o d) \notin pathsOf(response.rawRoots[1])

\* C8: in the tree built for one source no two distinct nodes, the root node
\* included, carry the same logical path.
C8_UniqueLogicalPaths ==
    response.kind = "tree" =>
        \A r \in 1..Len(response.rawRoots) :
            \A i, j \in 1..Len(nodesOf(response.rawRoots[r])) :
                i # j => nodesOf(response.rawRoots[r])[i].Path
                           # nodesOf(response.rawRoots[r])[j].Path

\* A tree with two nodes of one name, in different directories.
C8_Witness ==
    /\ response.kind = "tree"
    /\ Len(response.rawRoots) = 1
    /\ \E i, j \in 1..Len(nodesOf(response.rawRoots[1])) :
          /\ i # j
          /\ nodesOf(response.rawRoots[1])[i].Name = nodesOf(response.rawRoots[1])[j].Name

\* The path of a child relative to the root location, from that of its parent.
relOfChild(rel, child) == IF rel = "" THEN child.Name ELSE rel \o "/" \o child.Name

\* Every node below node, which the backend holds at rel, carries the alias
\* followed by its own path relative to the root location of the source.
RECURSIVE PathsBelow(_, _, _)
PathsBelow(node, rel, alias) ==
    \A k \in 1..Len(node.Children) :
        /\ relOfChild(rel, node.Children[k]) \in content.files \cup content.dirs
        /\ node.Children[k].Path = alias \o "/" \o relOfChild(rel, node.Children[k])
        /\ PathsBelow(node.Children[k], relOfChild(rel, node.Children[k]), alias)

\* C9 as the specification states it: the logical path of the root node of
\* the tree of a source is the alias alone, that of every other node the
\* alias followed by the path of the node relative to the source root.
C9_RootPathIsAlias ==
    response.kind = "tree" =>
        \A r \in 1..Len(response.rawRoots) :
            /\ response.rawRoots[r].Path = folderOf(response.rawRoots[r]).Alias
            /\ PathsBelow(response.rawRoots[r], folderOf(response.rawRoots[r]).SubPath,
                          folderOf(response.rawRoots[r]).Alias)

\* C9, amended: the logical path of the root node of the tree of a source
\* is empty when the source has no sub-path and the alias followed by the
\* sub-path when it has one; the logical path of every other node is the
\* alias followed by the path of the node relative to the root location of
\* the source (the sub-path included).
C9_RootPathIsSubPath ==
    response.kind = "tree" =>
        \A r \in 1..Len(response.rawRoots) :
            /\ response.rawRoots[r].Path =
                  (IF folderOf(response.rawRoots[r]).SubPath = "" THEN ""
                   ELSE folderOf(response.rawRoots[r]).Alias \o "/"
                            \o folderOf(response.rawRoots[r]).SubPath)
            /\ PathsBelow(response.rawRoots[r], folderOf(response.rawRoots[r]).SubPath,
                          folderOf(response.rawRoots[r]).Alias)

\* The tree of a source with the sub-path "doc" that holds a file two levels
\* below its root node.
C9_Witness ==
    /\ response.kind = "tree"
    /\ Len(response.rawRoots) = 1
    /\ Folders[1].SubPath = "doc"
    /\ response.rawRoots[1].Path = "A/doc"
    /\ "A/doc/sub/deep.markdown" \in pathsOf(response.rawRoots[1])

\* Whether the path p of the backend lies below the path the build starts at.
belowStart(folder, p) == folder.SubPath = "" \/ HasPrefix(p, folder.SubPath \o "/")

\* The three lists, each asked on its own, for a path of the backend.
matchesGlobal(p) == IsExcluded(baseName(p))
matchesRepo(folder, p) == IsFolderExcluded(p, GetRepoExclude(folder.Path))
matchesFolder(folder, p) == IsFolderExcluded(p, folder.Exclude)
matchesAny(folder, p) ==
    matchesGlobal(p) \/ matchesRepo(folder, p) \/ matchesFolder(folder, p)

\* The directories between the start of the build and p.
ancestorsBelowStart(folder, p) == {a \in Ancestors(p) \ {""} : belowStart(folder, a)}

\* Whether the backend of the folder answers without error on the file p
\* and on every directory between the start of the build and p.
backendAnswers(folder, p) ==
    /\ FS_Stat(fsForFolder(folder), p).err = ""
    /\ \A a \in ancestorsBelowStart(folder, p) :
          /\ FS_Stat(fsForFolder(folder), a).err = ""
          /\ FS_ReadDir(fsForFolder(folder), a).err = ""

\* A path below the start that matches a list is not in the tree.
MatchingExcluded(tree, folder) ==
    \A p \in content.files \cup content.dirs :
        belowStart(folder, p) /\ matchesAny(folder, p) =>
            (folder.Alias \o "/" \o p) \notin pathsOf(tree)

\* Each of files that lies below the start, has a recognized extension and
\* matches no list, as no directory above it does, is in the tree.
UnmatchedIncluded(tree, folder, files) ==
    \A p \in files :
        /\ belowStart(folder, p)
        /\ IsMarkdownFile(baseName(p))
        /\ ~matchesAny(folder, p)
        /\ \A a \in ancestorsBelowStart(folder, p) : ~matchesAny(folder, a)
        => (folder.Alias \o "/" \o p) \in pathsOf(tree)

MatchDirs == {"vendor", "doc", "a"}
MatchSuffixes == {"ish", "s", ".d"}
MatchNames == {"readme.md", "x", "vendor"}

\* The relative paths asked: the directories with and without a suffix, the
\* paths one and two levels below them, and the names alone.
MatchPaths ==
    LET firsts == MatchDirs \cup {d \o x : d \in MatchDirs, x \in MatchSuffixes}
    IN  firsts \cup MatchNames
            \cup {f \o "/" \o n : f \in firsts, n \in MatchNames}
            \cup {f \o "/" \o n \o "/" \o m : f \in firsts, n \in {"x"}, m \in MatchNames}

InitMatch ==
    /\ Folders = LegacyFolders("/r")
    /\ Exclude = DefaultExclude
    /\ RepoExclude = NoRepoExclude
    /\ content = GroupContent
    /\ gitUp = TRUE
    /\ response = None
    /\ call = None
    /\ result = None
    /\ watcher = None
    /\ ws = None

IsFolderExcludedCall(relPath, folderExcludes) ==
    /\ call' = [kind |-> "IsFolderExcluded", relPath |-> relPath,
                folderExcludes |-> folderExcludes]
    /\ result' = [kind |-> "bool", value |-> IsFolderExcluded(relPath, folderExcludes)]
    /\ UNCHANGED <<liveVars, cfgVars, envVars, response>>

NextMatch ==
    \E d \in MatchDirs, relPath \in MatchPaths :
        IsFolderExcludedCall(relPath, <<d \o "/*">>)

SpecMatch == InitMatch /\ [][NextMatch]_vars

\* C7: the pattern "d/*" excludes every path that is a direct child of the
\* directory d, and excludes no path whose first segment merely has d as a
\* proper string prefix.
C7_DirStarPattern ==
    call.kind = "IsFolderExcluded" =>
        \A d \in MatchDirs :
            call.folderExcludes = <<d \o "/*">> =>
                /\ (/\ Len(SplitSlash(call.relPath)) = 2
                    /\ SplitSlash(call.relPath)[1] = d) => result.value
                /\ (/\ SplitSlash(call.relPath)[1] # d
                    /\ HasPrefix(SplitSlash(call.relPath)[1], d)) => ~result.value

\* "vendor/*" was asked about "vendor/readme.md" and excluded it.
C7_Witness ==
    /\ call.kind = "IsFolderExcluded"
    /\ call.folderExcludes = <<"vendor/*">>
    /\ call.relPath = "vendor/readme.md"
    /\ result.value

(***************************************************************************)
(* SpecFS: read, stat and list are called on the two backends of "/r",     *)
(* the versioned one at a ref that resolves and at one that does not.      *)
(***************************************************************************)

FsContents ==
    {MkContent({"README.md", "doc/guide.md"}, {}, {}),
     MkContent({"README.md"}, {"empty"}, {})}

FsPaths ==
    {"", ".", "README.md", "doc", "doc/guide.md", "empty", "nope.md", "doc/nope.md",
     "README.md/x", "..", "../s", "../s/README.md", "doc/../README.md"}

FsBackends ==
    {fsForFolder([Path |-> "/r", GitRef |-> ref]) : ref \in {"", "main", "gone"}}

InitFS ==
    /\ Folders = LegacyFolders("/r")
    /\ Exclude = DefaultExclude
    /\ RepoExclude = NoRepoExclude
    /\ content \in FsContents
    /\ gitUp \in BOOLEAN
    /\ response = None
    /\ call = None
    /\ result = None
    /\ watcher = None
    /\ ws = None

ReadFileCall(fs, path) ==
    /\ call' = [kind |-> "ReadFile", fs |-> fs, path |-> path]
    /\ result' = FS_ReadFile(fs, path)
    /\ UNCHANGED <<liveVars, cfgVars, envVars, response>>

StatCall(fs, path) ==
    /\ call' = [kind |-> "Stat", fs |-> fs, path |-> path]
    /\ result' = FS_Stat(fs, path)
    /\ UNCHANGED <<liveVars, cfgVars, envVars, response>>

ReadDirCall(fs, path) ==
    /\ call' = [kind |-> "ReadDir", fs |-> fs, path |-> path]
    /\ result' = FS_ReadDir(fs, path)
    /\ UNCHANGED <<liveVars, cfgVars, envVars, response>>

NextFS ==
    \/ \E fs \in FsBackends, path \in FsPaths : ReadFileCall(fs, path)
    \/ \E fs \in FsBackends, path \in FsPaths : StatCall(fs, path)
    \/ \E fs \in FsBackends, path \in FsPaths : ReadDirCall(fs, path)

SpecFS == InitFS /\ [][NextFS]_vars

\* Whether the source of a backend holds nothing at path: the host for the
\* local backend, the snapshot of the ref (if it resolves) for the versioned.
missingInSource(fs, path) ==
    IF fs.kind = "local" THEN HostKind(LocalFS_abs(fs, path)) = "none"
    ELSE \/ fs.ref \notin GitRefs
         \/ /\ path \notin {"", "."}
            /\ path \notin Snapshot(fs.ref).files \cup Snapshot(fs.ref).dirs

\* C10: on both backends read, stat and list fail with NotFound on a path
\* that does not exist in the source (for the versioned backend: not at the
\* ref, or the ref does not resolve), the external tool being runnable; none
\* returns a successful result for a missing path.
C10_MissingIsNotFound ==
    /\ call.kind \in {"ReadFile", "Stat", "ReadDir"}
    /\ call.fs.kind = "git" => gitUp
    /\ missingInSource(call.fs, call.path)
    => result.err = ErrNotExist

\* Whether a path has a parent-traversal segment.
hasTraversal(path) == \E k \in 1..Len(SplitSlash(path)) : SplitSlash(path)[k] = ".."

\* C11: a read, stat or list whose path contains a parent-traversal segment
\* ("..") is rejected with PermissionDenied, whatever the backend.
C11_TraversalRejected ==
    /\ call.kind \in {"ReadFile", "Stat", "ReadDir"}
    /\ hasTraversal(call.path)
    => result.err = ErrPermission

\* C12: in the versioned backend a transport failure (the tool cannot be
\* run) during read, stat or list is reported as an error that is not
\* NotFound.
C12_TransportIsNotNotFound ==
    /\ call.kind \in {"ReadFile", "Stat", "ReadDir"}
    /\ call.fs.kind = "git"
    /\ ~gitUp
    => result.err # "" /\ result.err # ErrNotExist

(***************************************************************************)
(* SpecStat: GitFS.Stat on a path other than the root, from the two        *)
(* answers of the external tool, which are drawn from ToolAnswers.         *)
(***************************************************************************)

StatPaths == {"doc", "doc/sub", "README.md", "doc/guide.md", "nope"}

\* What the tool may answer to a listing: a failure, nothing, the line of a
\* blob, the line of a tree, the lines of the entries inside a tree.
ToolAnswers(path) ==
    {[err |-> "git ls-tree: fatal"],
     [err |-> "", out |-> <<>>],
     [err |-> "", out |-> <<[mode |-> "100644", type |-> "blob", hash |-> "0000000",
                            name |-> path]>>],
     [err |-> "", out |-> <<[mode |-> "040000", type |-> "tree", hash |-> "0000000",
                            name |-> path]>>],
     [err |-> "", out |-> <<[mode |-> "100644", type |-> "blob", hash |-> "0000000",
                            name |-> path \o "/a.md"],
                           [mode |-> "040000", type |-> "tree", hash |-> "0000000",
                            name |-> path \o "/b"]>>]}

InitStat ==
    /\ Folders = LegacyFolders("/r")
    /\ Exclude = DefaultExclude
    /\ RepoExclude = NoRepoExclude
    /\ content = GroupContent
    /\ gitUp = TRUE
    /\ response = None
    /\ call = None
    /\ result = None
    /\ watcher = None
    /\ ws = None

StatListedCall(path, first, second) ==
    /\ call' = [kind |-> "StatListed", path |-> path, first |-> first, second |-> second]
    /\ result' = GitFS_StatListed(path, first, second)
    /\ UNCHANGED <<liveVars, cfgVars, envVars, response>>

NextStat ==
    \E path \in StatPaths :
        \E first \in ToolAnswers(path), second \in ToolAnswers(path) :
            StatListedCall(path, first, second)

SpecStat == InitStat /\ [][NextStat]_vars

\* C13: versioned stat on a non-root path: when the listing of the exact
\* path is empty and the listing of the path with a trailing separator is
\* not, stat succeeds and reports a directory named after the last segment
\* of the path; when both listings are empty, stat fails with NotFound.
C13_StatByTrailingSeparator ==
    /\ call.kind = "StatListed"
    /\ call.first.err = ""
    /\ call.first.out = <<>>
    /\ call.second.err = ""
    => IF call.second.out # <<>>
       THEN /\ result.err = ""
            /\ result.IsDir
            /\ result.Name = SplitSlash(call.path)[Len(SplitSlash(call.path))]
       ELSE result.err = ErrNotExist

\* Stat of "doc/sub" found nothing at the exact path and two entries behind
\* the trailing separator, and reported the directory "sub".
C13_Witness ==
    /\ call.kind = "StatListed"
    /\ call.path = "doc/sub"
    /\ call.first = [err |-> "", out |-> <<>>]
    /\ call.second.err = ""
    /\ Len(call.second.out) = 2
    /\ result = [err |-> "", Name |-> "sub", IsDir |-> TRUE]

(***************************************************************************)
(* internal/watcher: the Watcher, its event loop (one goroutine) and the   *)
(* call of Stop (the main goroutine).  fsnotify is the host's notification *)
(* source: a watch list, an unbuffered Events channel that holds at most   *)
(* the one notification its sender is blocked on, and Close.               *)
(***************************************************************************)

\* The bound on the registered callbacks.
MaxCallbacks == 2

\* The values of EventType.
EventCreate == "EventCreate"
EventWrite == "EventWrite"
EventRemove == "EventRemove"
EventRename == "EventRename"

\* watcher.New: nothing watched, no callback, the loop not started.  Beside
\* the fields of Watcher: the notification the loop received last and the
\* invocations of callbacks made for it.
NewWatcher ==
    [started |-> FALSE, watches |-> {}, callbacks |-> <<>>, done |-> FALSE,
     closed |-> FALSE, Events |-> <<>>,
     loop |-> [pc |-> "none"], stop |-> "none", last |-> None, delivered |-> <<>>]

\* isDir of watcher.go.
isDir(path) == OsStat(path).err = "" /\ OsStat(path).IsDir

\* The directories filepath.Walk visits from a folder path.
walked(path) ==
    IF HostKind(path) # "dir" THEN {}
    ELSE {path} \cup {path \o "/" \o d : d \in content.dirs}

\* Watcher.Start: the directories it registers, those of the folders
\* without a ref whose name no global pattern matches.
startWatches ==
    UNION {{d \in walked(Folders[i].Path) : ~IsExcluded(d)} :
             i \in {i \in 1..Len(Folders) : Folders[i].GitRef = ""}}

\* A variant of the switch of handleEvent that tests the bits in the order
\* rename, remove, write, create.
eventTypeOfReversed(op) ==
    IF "Rename" \in op THEN EventRename
    ELSE IF "Remove" \in op THEN EventRemove
    ELSE IF "Write" \in op THEN EventWrite
    ELSE IF "Create" \in op THEN EventCreate
    ELSE "none"

\* handleEvent: the switch on the operation bits.
eventTypeOf(op) ==
    IF "Create" \in op THEN EventCreate
    ELSE IF "Write" \in op THEN EventWrite
    ELSE IF "Remove" \in op THEN EventRemove
    ELSE IF "Rename" \in op THEN EventRename
    ELSE "none"

\* A variant of the filter of handleEvent that does not look at exclusion.
isDroppedByExtensionOnly(event) ==
    \/ ~isDir(event.Name) /\ ~IsMarkdownFile(event.Name)
    \/ eventTypeOf(event.Op) = "none"

\* handleEvent: whether the notification is dropped before the callbacks.
isDropped(event) ==
    \/ IsExcluded(event.Name)
    \/ ~isDir(event.Name) /\ ~IsMarkdownFile(event.Name)
    \/ eventTypeOf(event.Op) = "none"

\* handleEvent: the watch list after the notification.
watchesAfter(event) ==
    IF "Create" \in event.Op /\ isDir(event.Name)
    THEN watcher.watches \cup {event.Name}
    ELSE watcher.watches

\* Watcher.OnChange, called as main does before Start.
OnChange(cb) ==
    /\ watcher # None
    /\ ~watcher.started
    /\ Len(watcher.callbacks) < MaxCallbacks
    /\ cb = Len(watcher.callbacks) + 1
    /\ watcher' = [watcher EXCEPT !.callbacks = Append(@, cb)]
    /\ UNCHANGED <<cfgVars, envVars, response, callVars, ws>>

\* Watcher.Start: the walk of the folders, then `go w.eventLoop()`.
Start ==
    /\ watcher # None
    /\ ~watcher.started
    /\ watcher' = [watcher EXCEPT !.started = TRUE, !.watches = startWatches,
                                  !.loop = [pc |-> "select"]]
    /\ UNCHANGED <<cfgVars, envVars, response, callVars, ws>>

\* The host raises a notification for an entry of a watched directory; its
\* sender blocks on the Events channel until the loop receives it.
Notify(name, op) ==
    /\ watcher # None
    /\ watcher.started
    /\ ~watcher.closed
    /\ Len(watcher.Events) = 0
    /\ \E d \in watcher.watches : name = d \o "/" \o baseName(name)
    /\ watcher' = [watcher EXCEPT !.Events = <<[Name |-> name, Op |-> op]>>]
    /\ UNCHANGED <<cfgVars, envVars, response, callVars, ws>>

\* The host's directories change: a directory is made.
HostChange(c) ==
    /\ content.dirs \subseteq c.dirs
    /\ content # c
    /\ content' = c
    /\ UNCHANGED <<cfgVars, gitUp, response, callVars, liveVars>>

\* A variant of eventLoop's select that has no case for the stop signal and
\* does not see the Events channel closed.
selectNeverDone(w) == FALSE

\* eventLoop: whether the select can take a case that returns, the stop
\* signal closed or the Events channel closed and drained.
selectDone(w) == w.done \/ (w.closed /\ Len(w.Events) = 0)

\* eventLoop returns from its select.
LoopReturn ==
    /\ watcher # None
    /\ watcher.loop.pc = "select"
    /\ selectDone(watcher)
    /\ watcher' = [watcher EXCEPT !.loop = [pc |-> "returned"]]
    /\ UNCHANGED <<cfgVars, envVars, response, callVars, ws>>

\* eventLoop receives a notification and handleEvent runs up to its loop
\* over the copy of the callbacks.
loopAfter(event, dropped) ==
    IF dropped \/ Len(watcher.callbacks) = 0 THEN [pc |-> "select"]
    ELSE [pc |-> "call", e |-> [Type |-> eventTypeOf(event.Op), Path |-> event.Name],
          callbacks |-> watcher.callbacks, i |-> 1]

LoopReceive ==
    /\ watcher # None
    /\ watcher.loop.pc = "select"
    /\ Len(watcher.Events) > 0
    /\ watcher' = [watcher EXCEPT
          !.Events = <<>>,
          !.last = Head(watcher.Events),
          !.delivered = <<>>,
          !.watches = IF isDropped(Head(watcher.Events)) THEN @
                      ELSE watchesAfter(Head(watcher.Events)),
          !.loop = loopAfter(Head(watcher.Events), isDropped(Head(watcher.Events)))]
    /\ UNCHANGED <<cfgVars, envVars, response, callVars, ws>>

\* handleEvent invokes the next callback: cb(e) is entered.
CallbackEnter ==
    /\ watcher # None
    /\ watcher.loop.pc = "call"
    /\ watcher' = [watcher EXCEPT
          !.loop.pc = "in_cb",
          !.delivered = Append(@, [cb |-> watcher.loop.callbacks[watcher.loop.i],
                                   e |-> watcher.loop.e,
                                   afterStop |-> watcher.stop = "returned"])]
    /\ UNCHANGED <<cfgVars, envVars, response, callVars, ws>>

\* cb(e) returns; after the last callback handleEvent returns to the select.
CallbackReturn ==
    /\ watcher # None
    /\ watcher.loop.pc = "in_cb"
    /\ watcher' = [watcher EXCEPT
          !.loop = IF watcher.loop.i < Len(watcher.loop.callbacks)
                   THEN [@ EXCEPT !.pc = "call", !.i = @ + 1]
                   ELSE [pc |-> "select"]]
    /\ UNCHANGED <<cfgVars, envVars, response, callVars, ws>>

\* Watcher.Stop, first statement: close(w.done).
StopCloseDone ==
    /\ watcher # None
    /\ watcher.started
    /\ watcher.stop = "none"
    /\ watcher' = [watcher EXCEPT !.done = TRUE, !.stop = "closing"]
    /\ UNCHANGED <<cfgVars, envVars, response, callVars, ws>>

\* Watcher.Stop, second statement: w.watcher.Close() and the return.  The
\* sender blocked on Events gives up or still hands its notification over.
StopCloseWatcher ==
    /\ watcher # None
    /\ watcher.stop = "closing"
    /\ \E pending \in {watcher.Events, <<>>} :
          watcher' = [watcher EXCEPT !.closed = TRUE, !.stop = "returned",
                                     !.Events = pending]
    /\ UNCHANGED <<cfgVars, envVars, response, callVars, ws>>

(***************************************************************************)
(* SpecStop: a watcher with its callbacks, notifications and Stop.         *)
(* SpecStopFair adds that the loop and Stop, once they can step, do step.  *)
(* SpecWatch adds changes of the folder configuration and of the global    *)
(* patterns.                                                               *)
(***************************************************************************)

WatchContents == {MkContent({"README.md"}, {}, {}), MkContent({"README.md"}, {"sub"}, {})}

\* The notifications the host raises: the name and the operation bits.
Notifications ==
    {<<"/r/new.md", {"Create"}>>, <<"/r/new.md", {"Remove"}>>,
     <<"/r/new.md", {"Chmod"}>>, <<"/r/new.md", {"Remove", "Rename"}>>,
     <<"/r/x.txt", {"Create"}>>, <<"/r/x.txt", {"Write"}>>,
     <<"/r/sub", {"Create"}>>}

InitStop ==
    /\ Folders = LegacyFolders("/r")
    /\ Exclude \in {DefaultExclude, <<"new*">>}
    /\ RepoExclude = NoRepoExclude
    /\ content \in WatchContents
    /\ gitUp = TRUE
    /\ response = None
    /\ call = None
    /\ result = None
    /\ watcher = NewWatcher
    /\ ws = None

NextStop ==
    \/ \E cb \in 1..MaxCallbacks : OnChange(cb)
    \/ Start
    \/ \E n \in Notifications : Notify(n[1], n[2])
    \/ \E c \in WatchContents : HostChange(c)
    \/ LoopReturn
    \/ LoopReceive
    \/ CallbackEnter
    \/ CallbackReturn
    \/ StopCloseDone
    \/ StopCloseWatcher

SpecStop == InitStop /\ [][NextStop]_vars

SpecStopFair ==
    /\ InitStop /\ [][NextStop]_vars
    /\ WF_vars(LoopReturn \/ LoopReceive \/ CallbackEnter \/ CallbackReturn)
    /\ WF_vars(StopCloseWatcher)

InitWatch ==
    /\ Folders \in {LegacyFolders("/r"),
                    Append(LegacyFolders("/r"),
                           [Path |-> "/s", Alias |-> "s (main)", GitRef |-> "main",
                            SubPath |-> "", Exclude |-> <<>>])}
    /\ Exclude = DefaultExclude
    /\ RepoExclude = NoRepoExclude
    /\ content = MkContent({"README.md"}, {}, {})
    /\ gitUp = TRUE
    /\ response = None
    /\ call = None
    /\ result = None
    /\ watcher = NewWatcher
    /\ ws = None

NextWatch ==
    \/ \E cb \in 1..MaxCallbacks : OnChange(cb)
    \/ Start
    \/ \E name \in {"/r/new.md", "/r/sub"} : Notify(name, {"Create"})
    \/ \E c \in WatchContents : HostChange(c)
    \/ LoopReturn
    \/ LoopReceive
    \/ CallbackEnter
    \/ CallbackReturn
    \/ StopCloseDone
    \/ StopCloseWatcher
    \/ AddFolder("/s", "", "", "", <<>>)
    \/ \E index \in 0..(MaxFolders - 1), gitRef \in TreeRefs :
          UpdateFolder(index, "A", gitRef, "", <<>>)
    \/ \E index \in 0..(MaxFolders - 1) : RemoveFolder(index)

SpecWatch == InitWatch /\ [][NextWatch]_vars

\* C14: every directory registered for notification lies at or below the
\* root of a configured source without a ref.
C14_WatchedBelowLocalSource ==
    watcher # None =>
        \A d \in watcher.watches :
            \E i \in 1..Len(Folders) :
                /\ Folders[i].GitRef = ""
                /\ d = Folders[i].Path \/ HasPrefix(d, Folders[i].Path \o "/")

(***************************************************************************)
(* Properties of the watcher.  They are read off the notification the loop *)
(* received last and the invocations of callbacks made for it.             *)
(***************************************************************************)

\* The loop has received a notification for a file (a name that is no
\* directory of the host).
handledFile ==
    /\ watcher # None
    /\ watcher.last # None
    /\ ~isDir(watcher.last.Name)

\* handleEvent is not at work: the loop is back in its select or returned.
handlingOver == watcher.loop.pc \in {"select", "returned"}

\* The invocations made of one callback for the last notification.
deliveriesTo(cb) ==
    {k \in 1..Len(watcher.delivered) : watcher.delivered[k].cb = cb}

\* Every registered callback is invoked once with {type, the path of the
\* last notification}: never twice, never with another event, and each of
\* them when the handling is over.
DeliveredOnce(type) ==
    /\ \A k \in 1..Len(watcher.delivered) :
          watcher.delivered[k].e = [Type |-> type, Path |-> watcher.last.Name]
    /\ \A i \in 1..Len(watcher.callbacks) :
          /\ Cardinality(deliveriesTo(watcher.callbacks[i])) <= 1
          /\ handlingOver => Cardinality(deliveriesTo(watcher.callbacks[i])) = 1

\* What the raw operation bits of the last notification say.
rawCreate == "Create" \in watcher.last.Op
rawRemove == "Remove" \in watcher.last.Op /\ watcher.last.Op \cap {"Create", "Write"} = {}

\* C15 as the specification states it: in a watched directory that is not
\* excluded, a create notification for a file with a recognized extension
\* delivers exactly one {create, path} to every registered callback, a
\* remove notification exactly one {remove, path}, and a notification for
\* a file with an unrecognized extension delivers nothing.
C15_DeliveredOnce ==
    handledFile =>
        /\ IsMarkdownFile(watcher.last.Name) /\ rawCreate => DeliveredOnce(EventCreate)
        /\ IsMarkdownFile(watcher.last.Name) /\ rawRemove => DeliveredOnce(EventRemove)
        /\ ~IsMarkdownFile(watcher.last.Name) => watcher.delivered = <<>>

\* C15, amended: the same for a file whose name matches no global
\* exclusion pattern; a notification for a file whose name matches one
\* delivers nothing, whatever its extension.
C15_DeliveredOnceUnlessExcluded ==
    handledFile =>
        /\ IsMarkdownFile(watcher.last.Name) /\ ~IsExcluded(watcher.last.Name) /\ rawCreate
              => DeliveredOnce(EventCreate)
        /\ IsMarkdownFile(watcher.last.Name) /\ ~IsExcluded(watcher.last.Name) /\ rawRemove
              => DeliveredOnce(EventRemove)
        /\ ~IsMarkdownFile(watcher.last.Name) \/ IsExcluded(watcher.last.Name)
              => watcher.delivered = <<>>

\* The creation of /r/new.md was handled with two callbacks registered and
\* each of them was invoked once.
C15_Witness ==
    /\ handledFile
    /\ watcher.last = [Name |-> "/r/new.md", Op |-> {"Create"}]
    /\ ~IsExcluded("/r/new.md")
    /\ handlingOver
    /\ Len(watcher.callbacks) = 2
    /\ Len(watcher.delivered) = 2
    /\ DeliveredOnce(EventCreate)

\* C16: once Stop has returned no callback is invoked and none is running.
C16_NoDeliveryAfterStop ==
    watcher # None /\ watcher.stop = "returned" =>
        /\ watcher.loop.pc # "in_cb"
        /\ \A k \in 1..Len(watcher.delivered) : ~watcher.delivered[k].afterStop

\* C17: after Stop is called on a started watcher the event loop
\* eventually returns, when the loop and Stop step whenever they can and
\* every callback returns.
C17_LoopTerminates ==
    (watcher # None /\ watcher.stop # "none") ~> (watcher.loop.pc = "returned")

\* Stop was called while a notification was being handled, and the loop
\* has returned.
C17_Witness ==
    /\ watcher # None
    /\ watcher.stop = "returned"
    /\ watcher.last # None
    /\ Len(watcher.delivered) > 0
    /\ watcher.loop.pc = "returned"

(***************************************************************************)
(* internal/handler/websocket.go: the WSHandler.  Every connection has its *)
(* own HandleWS goroutine; broadcast runs on the goroutine of the watcher's *)
(* event loop, one publish after the other.  Beside the registered set the *)
(* state holds, for each connection, where its HandleWS is and whether it  *)
(* is open, the writes of the publish in progress or last finished, and    *)
(* the connections a write has failed on.  mu is the RWMutex: the          *)
(* goroutines that hold it for writing (w) and for reading (r), the        *)
(* handler of the connection c named c and the publishing goroutine 0.     *)
(***************************************************************************)

\* The bound on the connections accepted.
MaxConns == 2

\* NewWSHandler: no client, the lock free; nothing accepted or published yet.
NewWSHandler ==
    [clients |-> {},
     mu |-> [w |-> {}, r |-> {}],
     conn |-> [c \in 1..MaxConns |-> [pc |-> "none", open |-> FALSE]],
     bc |-> [pc |-> "idle"], written |-> <<>>, failed |-> {}]

\* A variant of mu.Lock that never waits.
canLockAlways(mu) == TRUE

\* sync.RWMutex: whether mu.Lock() returns, no goroutine holding the lock.
canLock(mu) == mu.w = {} /\ mu.r = {}

\* A variant of addClient that registers nothing.
addClientNot(clients, conn) == clients

\* WSHandler.addClient.
addClient(clients, conn) == clients \cup {conn}

\* WSHandler.removeClient.
removeClient(clients, conn) == clients \ {conn}

\* WSHandler.HandleWS for the connection c, statement by statement: the
\* upgrade, addClient (mu.Lock, then the write to the map with the deferred
\* mu.Unlock), the read loop until ReadMessage fails, and the deferred
\* removeClient (the same two steps) and Close.
HandleWS(c) ==
    /\ ws # None
    /\ \/ /\ ws.conn[c].pc = "none"
          /\ ws' = [ws EXCEPT !.conn[c] = [pc |-> "upgraded", open |-> TRUE]]
       \/ /\ ws.conn[c].pc = "upgraded"
          /\ canLock(ws.mu)
          /\ ws' = [ws EXCEPT !.mu.w = @ \cup {c}, !.conn[c].pc = "adding"]
       \/ /\ ws.conn[c].pc = "adding"
          /\ ws' = [ws EXCEPT !.clients = addClient(@, c), !.mu.w = @ \ {c},
                              !.conn[c].pc = "reading"]
       \/ /\ ws.conn[c].pc = "reading"
          /\ ws' = [ws EXCEPT !.conn[c].pc = "ended"]
       \/ /\ ws.conn[c].pc = "ended"
          /\ canLock(ws.mu)
          /\ ws' = [ws EXCEPT !.mu.w = @ \cup {c}, !.conn[c].pc = "removing"]
       \/ /\ ws.conn[c].pc = "removing"
          /\ ws' = [ws EXCEPT !.clients = removeClient(@, c), !.mu.w = @ \ {c},
                              !.conn[c].pc = "removed"]
       \/ /\ ws.conn[c].pc = "removed"
          /\ ws' = [ws EXCEPT !.conn[c] = [pc |-> "returned", open |-> FALSE]]
    /\ UNCHANGED <<cfgVars, envVars, response, callVars, watcher>>

\* The orders in which a range over the map can yield the clients.
RECURSIVE orders(_)
orders(S) ==
    IF S = {} THEN {<<>>}
    ELSE UNION {{<<c>> \o o : o \in orders(S \ {c})} : c \in S}

\* broadcast: the loop goes on to the write on the next client of the copy,
\* or returns after the last one.
bcNext(bc) ==
    IF bc.i < Len(bc.clients) THEN [bc EXCEPT !.pc = "write", !.i = @ + 1]
    ELSE [pc |-> "idle"]

\* A variant of the step of broadcast after a write that ignores its error.
bcAfterWriteIgnored(bc, ok) == bcNext(bc)

\* broadcast after client.WriteMessage: on an error removeClient is next.
bcAfterWrite(bc, ok) == IF ~ok THEN [bc EXCEPT !.pc = "remove"] ELSE bcNext(bc)

\* WSHandler.broadcast for one message, statement by statement: mu.RLock,
\* the copy of the clients with mu.RUnlock, then for each of them the write
\* and, when it failed, removeClient (mu.Lock, then the delete with the
\* deferred mu.Unlock).  A write on a closed connection fails; one on an
\* open connection succeeds or fails.  Each write notes whether the handler
\* of the connection had deregistered and closed it before.
broadcast ==
    /\ ws # None
    /\ \/ /\ ws.bc.pc = "idle"
          /\ ws.mu.w = {}
          /\ ws' = [ws EXCEPT !.mu.r = @ \cup {0}, !.bc = [pc |-> "copying"]]
       \/ /\ ws.bc.pc = "copying"
          /\ \E o \in orders(ws.clients) :
                ws' = [ws EXCEPT !.written = <<>>,
                         !.mu.r = @ \ {0},
                         !.bc = IF Len(o) = 0 THEN [pc |-> "idle"]
                                ELSE [pc |-> "write", clients |-> o, i |-> 1]]
       \/ /\ ws.bc.pc = "write"
          /\ \E ok \in {b \in BOOLEAN : b => ws.conn[ws.bc.clients[ws.bc.i]].open} :
                ws' = [ws EXCEPT
                         !.written = Append(@, [conn |-> ws.bc.clients[ws.bc.i], ok |-> ok,
                                                again |-> ws.bc.clients[ws.bc.i] \in ws.failed,
                                                gone |-> ws.conn[ws.bc.clients[ws.bc.i]].pc
                                                            = "returned"]),
                         !.failed = IF ok THEN @ ELSE @ \cup {ws.bc.clients[ws.bc.i]},
                         !.bc = bcAfterWrite(ws.bc, ok)]
       \/ /\ ws.bc.pc = "remove"
          /\ canLock(ws.mu)
          /\ ws' = [ws EXCEPT !.mu.w = @ \cup {0}, !.bc.pc = "removing"]
       \/ /\ ws.bc.pc = "removing"
          /\ ws' = [ws EXCEPT
                      !.clients = removeClient(@, ws.bc.clients[ws.bc.i]),
                      !.mu.w = @ \ {0},
                      !.bc = bcNext(ws.bc)]
    /\ UNCHANGED <<cfgVars, envVars, response, callVars, watcher>>

(***************************************************************************)
(* SpecWS: connections are accepted and end while messages are published.  *)
(***************************************************************************)

InitWS ==
    /\ Folders = LegacyFolders("/r")
    /\ Exclude = DefaultExclude
    /\ RepoExclude = NoRepoExclude
    /\ content = GroupContent
    /\ gitUp = TRUE
    /\ response = None
    /\ call = None
    /\ result = None
    /\ watcher = None
    /\ ws = NewWSHandler

NextWS ==
    \/ \E c \in 1..MaxConns : HandleWS(c)
    \/ broadcast

SpecWS == InitWS /\ [][NextWS]_vars

\* The publish is not at work: broadcast has returned or was never called.
publishOver == ws.bc.pc = "idle"

\* C18: a connection whose write failed is out of the registered set when
\* the publish returns; no connection is written twice in one publish and
\* none is written after a write on it has failed; a connection whose
\* write succeeded is registered when the publish returns, unless its own
\* handler has ended or an earlier write on it had failed.
C18_FailedWriteDeregisters ==
    ws # None =>
        /\ publishOver => ws.failed \cap ws.clients = {}
        /\ \A j, k \in 1..Len(ws.written) :
              j # k => ws.written[j].conn # ws.written[k].conn
        /\ \A k \in 1..Len(ws.written) : ~ws.written[k].again
        /\ \A k \in 1..Len(ws.written) :
              /\ ws.written[k].ok
              /\ ws.conn[ws.written[k].conn].pc = "reading"
              => ws.written[k].conn \in ws.clients

\* A publish has returned that wrote to two connections: the write on one
\* failed and it is registered no more, the other one is.
C18_Witness ==
    /\ ws # None
    /\ publishOver
    /\ Len(ws.written) = 2
    /\ \E j, k \in 1..2 :
          /\ ~ws.written[j].ok
          /\ ws.written[j].conn \notin ws.clients
          /\ ws.conn[ws.written[j].conn].pc = "reading"
          /\ ws.written[k].ok
          /\ ws.written[k].conn \in ws.clients

\* C19: a connection whose read loop runs was registered before (it is a
\* member unless a publish has dropped it since); a connection whose
\* handler has returned is closed and is no member of the registered set,
\* then and at any later time.
C19_AcceptLifecycle ==
    ws # None =>
        \A c \in 1..MaxConns :
            /\ ws.conn[c].pc = "reading" => c \in ws.clients \/ c \in ws.failed
            /\ ws.conn[c].pc = "returned" => c \notin ws.clients /\ ~ws.conn[c].open

\* The handler of one connection has returned and the connection is closed
\* and deregistered, while a publish is writing to the other one, which is
\* in its read loop and registered.
C19_Witness ==
    /\ ws # None
    /\ \E c, d \in 1..MaxConns :
          /\ ws.conn[c].pc = "returned"
          /\ c \notin ws.clients
          /\ ~ws.conn[c].open
          /\ ws.conn[d].pc = "reading"
          /\ d \in ws.clients
          /\ ws.bc.pc = "write"

\* The goroutines at work on the set of clients: those between the lock and
\* the unlock of addClient or removeClient, and the publish in its copy.
modifying ==
    {c \in 1..MaxConns : ws.conn[c].pc \in {"adding", "removing"}}
        \cup (IF ws.bc.pc = "removing" THEN {0} ELSE {})
iterating == IF ws.bc.pc = "copying" THEN {0} ELSE {}

\* C24: every access to the set of clients is made under the lock, add and
\* remove holding it for writing and the iteration of a publish for
\* reading; no goroutine reads or modifies the set while another one
\* modifies it; a publish about to remove a failed connection holds the
\* lock in no mode, so its Lock never waits for itself.
C24_SetUnderLock ==
    ws # None =>
        /\ modifying = ws.mu.w
        /\ iterating = ws.mu.r
        /\ Cardinality(modifying) <= 1
        /\ modifying # {} => iterating = {}
        /\ ws.bc.pc = "remove" => 0 \notin ws.mu.w \cup ws.mu.r

\* A publish removes a connection its write failed on, holding the lock for
\* writing, while the handler of another connection has left its read loop
\* and waits for the lock to deregister.
C24_Witness ==
    /\ ws # None
    /\ ws.bc.pc = "removing"
    /\ ws.mu = [w |-> {0}, r |-> {}]
    /\ \E c \in 1..MaxConns :
          /\ ws.conn[c].pc = "ended"
          /\ c \in ws.clients
          /\ c # ws.bc.clients[ws.bc.i]

\* C28: a publish never attempts a write on a connection that the handler
\* of the connection has deregistered and closed before.
C28_NoWriteAfterClose ==
    ws # None => \A k \in 1..Len(ws.written) : ~ws.written[k].gone

(***************************************************************************)
(* SpecConc: a tree request served while folder requests are served.  The  *)
(* handlers run on goroutines of their own and Config has no lock, so the  *)
(* statements of GetTree interleave with the writes of AddFolder,          *)
(* RemoveFolderByIndex and UpdateFolderByIndex.  `range h.cfg.Folders`     *)
(* takes the slice once and reads its elements from the backing array one  *)
(* iteration after the other: response.array is what these reads will      *)
(* find, response.shared whether the array is still the one Config writes  *)
(* to.  response.alone collects, for every value the folder list has had   *)
(* since the request began, the body a request served alone would get:     *)
(* every step taken during the request adds the body for the list it finds.*)
(***************************************************************************)

\* TreeHandler.GetTree, statement by statement: the range expression, one
\* iteration of the loop, groupByRepo with the response, and the return.
GetTreeSteps ==
    /\ \/ /\ response = None
          /\ response' = [kind |-> "building", array |-> Folders, shared |-> TRUE,
                          i |-> 1, roots |-> <<>>,
                          alone |-> {treeResponse(rawRoots).body}]
       \/ /\ response.kind = "building"
          /\ response.i <= Len(response.array)
          /\ response' = [response EXCEPT
                !.alone = @ \cup {treeResponse(rawRoots).body},
                !.i = @ + 1,
                !.roots = @ \o appendRoot(
                    buildTree(fsForFolder(response.array[response.i]),
                              response.array[response.i].SubPath, response.i - 1,
                              response.array[response.i].Alias,
                              mergedExcludes(response.array[response.i])),
                    response.array[response.i], response.i - 1, <<>>)]
       \/ /\ response.kind = "building"
          /\ response.i > Len(response.array)
          /\ response' = [kind |-> "tree", rawRoots |-> response.roots,
                          body |-> treeBody(groupByRepo(response.roots)),
                          alone |-> response.alone \cup {treeResponse(rawRoots).body}]
       \/ /\ response.kind = "tree"
          /\ response' = None
    /\ UNCHANGED <<cfgVars, envVars, callVars, liveVars>>

\* The bound on the folder requests served in one behaviour of SpecConc.
MaxWrites == 2

\* The writes of the folder handlers, one handler at a time: AddFolder
\* (append, into the backing array or, with realloc, into a new one),
\* RemoveFolderByIndex (the elements behind the index move one place down
\* in the backing array) and UpdateFolderByIndex (the assignment of Alias,
\* then that of GitRef, then those of SubPath and Exclude).  A request in
\* progress finds the writes made to the array it shares.  call counts the
\* folder requests and holds the update in progress.
FolderWrites ==
    /\ UNCHANGED <<Exclude, RepoExclude, envVars, result, liveVars>>
    /\ \E realloc \in BOOLEAN :
          /\ \/ \E path \in Roots, gitRef \in TreeRefs :
                   /\ call.kind = "none" /\ call.writes < MaxWrites
                   /\ Len(Folders) < MaxFolders
                   /\ OsStat(path).err = "" /\ OsStat(path).IsDir
                   /\ Folders' = ConfigAddFolder(path, "", gitRef, "", <<>>)
                   /\ Len(Folders') > Len(Folders)
                   /\ call' = [call EXCEPT !.writes = @ + 1]
             \/ \E index \in 0..(MaxFolders - 1) :
                   /\ call.kind = "none" /\ call.writes < MaxWrites
                   /\ ~realloc
                   /\ index < Len(Folders)
                   /\ Folders' = SubSeq(Folders, 1, index)
                                     \o SubSeq(Folders, index + 2, Len(Folders))
                   /\ call' = [call EXCEPT !.writes = @ + 1]
             \/ \E index \in 0..(MaxFolders - 1), gitRef \in TreeRefs :
                   /\ call.kind = "none" /\ call.writes < MaxWrites
                   /\ ~realloc
                   /\ index < Len(Folders)
                   /\ Folders' = [Folders EXCEPT ![index + 1].Alias = "A"]
                   /\ call' = [kind |-> "UpdateFolderByIndex", writes |-> call.writes + 1,
                               index |-> index, gitRef |-> gitRef, pc |-> "GitRef"]
             \/ /\ call.kind = "UpdateFolderByIndex"
                /\ call.pc = "GitRef"
                /\ ~realloc
                /\ Folders' = [Folders EXCEPT ![call.index + 1].GitRef = call.gitRef]
                /\ call' = [call EXCEPT !.pc = "SubPath"]
             \/ /\ call.kind = "UpdateFolderByIndex"
                /\ call.pc = "SubPath"
                /\ ~realloc
                /\ Folders' = [Folders EXCEPT ![call.index + 1].SubPath = "",
                                              ![call.index + 1].Exclude = <<>>]
                /\ call' = [kind |-> "none", writes |-> call.writes]
          /\ response' =
                IF response.kind # "building" THEN response
                ELSE [response EXCEPT
                        !.alone = @ \cup {treeResponse(rawRoots).body},
                        !.shared = @ /\ ~realloc,
                        !.array = IF ~response.shared THEN @
                                  ELSE [j \in 1..Len(@) |->
                                           IF j <= Len(Folders') THEN Folders'[j] ELSE @[j]]]

\* The server has two folders on /r, the working tree and the ref main.
InitConc ==
    /\ Folders = Append(LegacyFolders("/r"),
                        [Path |-> "/r", Alias |-> "r (main)", GitRef |-> "main",
                         SubPath |-> "", Exclude |-> <<>>])
    /\ Exclude = DefaultExclude
    /\ RepoExclude = NoRepoExclude
    /\ content = GroupContent
    /\ gitUp = TRUE
    /\ response = None
    /\ call = [kind |-> "none", writes |-> 0]
    /\ result = None
    /\ watcher = None
    /\ ws = None

NextConc == GetTreeSteps \/ FolderWrites

SpecConc == InitConc /\ [][NextConc]_vars

\* C20: the body of a tree response is the body a request served alone
\* would get for one of the values the folder list has had between the
\* begin and the end of the request.
C20_BuildOfOneMoment ==
    response.kind = "tree" => response.body \in response.alone

(***************************************************************************)
(* The way of a change to the page.  main registers WSHandler.OnFileChange *)
(* as the watcher's first callback; its message is broadcast to the        *)
(* connected clients and MarkHub.handleWSMessage of the front end handles  *)
(* it.  The page of one client is kept in result: the path of the file it  *)
(* displays, the message it handled last and the requests that made it     *)
(* issue.                                                                  *)
(***************************************************************************)

\* WSHandler.OnFileChange: the message it broadcasts for an event.
OnFileChange(event) ==
    LET eventType == IF event.Type = EventCreate THEN "create"
                     ELSE IF event.Type = EventWrite THEN "update"
                     ELSE IF event.Type = EventRemove THEN "remove"
                     ELSE IF event.Type = EventRename THEN "rename"
                     ELSE ""
    IN  IF eventType = "" THEN None
        ELSE [type |-> "fileChange",
              payload |-> [event |-> eventType, path |-> event.Path]]

\* MarkHub.handleWSMessage: the requests the page issues for a message.
handleWSMessage(currentPath, message) ==
    IF message.type # "fileChange" THEN {}
    ELSE (IF message.payload.event \in {"create", "remove"}
          THEN {"loadFileTree"} ELSE {})
         \cup (IF message.payload.event = "update" /\ currentPath = message.payload.path
               THEN {"loadFile"} ELSE {})

\* MarkHub.loadFile from a click on a file of the rendered tree: the page
\* displays the file and keeps the path of its node.
LoadFile(path) ==
    /\ result = None
    /\ watcher # None
    /\ watcher.last = None
    /\ \E i \in 1..Len(rawRoots) :
          \E k \in 1..Len(nodesOf(rawRoots[i])) :
             /\ nodesOf(rawRoots[i])[k].Type = "file"
             /\ nodesOf(rawRoots[i])[k].Path = path
    /\ result' = [currentPath |-> path, message |-> None, did |-> {}]
    /\ UNCHANGED <<cfgVars, envVars, response, call, liveVars>>

\* ws.onmessage of the page: the message OnFileChange broadcasts for the
\* event the loop is delivering to it arrives and is handled.
ClientMessage ==
    /\ result # None
    /\ watcher # None
    /\ watcher.loop.pc = "in_cb"
    /\ watcher.loop.callbacks[watcher.loop.i] = 1
    /\ OnFileChange(watcher.loop.e) # None
    /\ result' = [result EXCEPT
          !.message = OnFileChange(watcher.loop.e),
          !.did = handleWSMessage(result.currentPath, OnFileChange(watcher.loop.e))]
    /\ UNCHANGED <<cfgVars, envVars, response, call, liveVars>>

(***************************************************************************)
(* SpecEvents: a started watcher, the notifications of the host with every *)
(* combination of operation bits, and the page of a client.  One of the    *)
(* contents has a directory below a globally excluded one.                 *)
(***************************************************************************)

InitEvents ==
    /\ Folders = LegacyFolders("/r")
    /\ Exclude = DefaultExclude
    /\ RepoExclude = NoRepoExclude
    /\ content \in {MkContent({"README.md"}, {}, {}),
                    MkContent({"README.md", "node_modules/pkg/README.md"}, {}, {})}
    /\ gitUp = TRUE
    /\ response = None
    /\ call = None
    /\ result = None
    /\ watcher = NewWatcher
    /\ ws = None

NextEvents ==
    \/ \E cb \in 1..MaxCallbacks : OnChange(cb)
    \/ Start
    \/ \E op \in SUBSET {"Create", "Write", "Remove", "Rename", "Chmod"} :
          \E name \in {"/r/README.md", "/r/notes.txt", "/r/node_modules/pkg/README.md"} :
             /\ op # {}
             /\ name # "/r/README.md" => op = {"Write"}
             /\ Notify(name, op)
    \/ LoopReceive
    \/ CallbackEnter
    \/ CallbackReturn
    \/ \E path \in {"r/README.md", "r/node_modules/pkg/README.md"} : LoadFile(path)
    \/ ClientMessage

SpecEvents == InitEvents /\ [][NextEvents]_vars

\* The page displays, under the logical path, the file of a local source
\* that the host holds at the path name.
displayedAt(path, name) ==
    \E i \in 1..Len(Folders) :
        \E rel \in content.files :
            /\ Folders[i].GitRef = ""
            /\ path = nodePath(Folders[i].Alias, rel)
            /\ name = FilepathJoin(Folders[i].Path, rel)

\* C21: when the page of a connected client displays a markdown file of a
\* watched local source and handles the update message pushed for a
\* modification of that file, it reloads the file.
C21_HotReload ==
    /\ result # None
    /\ result.message # None
    /\ result.message.payload.event = "update"
    /\ displayedAt(result.currentPath, result.message.payload.path)
    => "loadFile" \in result.did

(***************************************************************************)
(* SpecSort: the tree of one folder over contents whose names differ in    *)
(* case, with or without a symbolic link to a directory.                   *)
(***************************************************************************)

InitSort ==
    /\ Folders = LegacyFolders("/r")
    /\ Exclude = DefaultExclude
    /\ RepoExclude = NoRepoExclude
    /\ content \in
          UNION {{MkContent(f, {}, {})} \cup
                 {[MkContent(f, {}, {}) EXCEPT !.links = {[name |-> n, target |-> "doc"]}] :
                      n \in IF "doc/README.md" \in f THEN {"ref.md"} ELSE {}} :
                 f \in {f \in SUBSET {"README.md", "about.md", "Zoo/a.md", "doc/README.md"} :
                          Cardinality(f) >= 1 /\ Cardinality(f) <= MaxFiles}}
    /\ gitUp = TRUE
    /\ response = None
    /\ call = None
    /\ result = None
    /\ watcher = None
    /\ ws = None

NextSort ==
    \/ \E gitRef \in TreeRefs : UpdateFolder(0, "A", gitRef, "", <<>>)
    \/ GetTree
    \/ Reply

SpecSort == InitSort /\ [][NextSort]_vars

\* The children of a node: the directories before the files, the names of
\* the directories and those of the files in non-decreasing order when
\* compared without regard to case.
ChildrenSorted(node) ==
    \A i \in 1..Len(node.Children) : \A j \in (i + 1)..Len(node.Children) :
        /\ node.Children[j].Type = "directory" => node.Children[i].Type = "directory"
        /\ node.Children[i].Type = node.Children[j].Type =>
              ~StrLess(ToLower(node.Children[j].Name), ToLower(node.Children[i].Name))

\* C22: in every directory node of a built tree all directory children
\* precede all file children, and the names within the directories and
\* within the files are in non-decreasing case-insensitive order.
C22_ChildrenSorted ==
    response.kind = "tree" =>
        \A t \in 1..Len(response.rawRoots) :
            \A k \in 1..Len(nodesOf(response.rawRoots[t])) :
                nodesOf(response.rawRoots[t])[k].Type = "directory" =>
                    ChildrenSorted(nodesOf(response.rawRoots[t])[k])

\* C22 without symbolic links: the same for a host that holds none.
C22_ChildrenSortedWithoutLinks ==
    content.links = {} => C22_ChildrenSorted

(***************************************************************************)
(* Backend errors during a build, under SpecTree: the host fails on one    *)
(* path of the content (content.broken).                                   *)
(***************************************************************************)

\* Whether the build of the backend path p returns a node: its stat
\* answers and, for a directory, its listing.
buildSucceeds(folder, p) ==
    /\ FS_Stat(fsForFolder(folder), p).err = ""
    /\ FS_Stat(fsForFolder(folder), p).IsDir =>
          FS_ReadDir(fsForFolder(folder), p).err = ""

\* The paths of the entries listed in the directory p that no exclusion
\* list matches and that are directories or have a recognized extension.
passing(folder, p) ==
    LET entries == FS_ReadDir(fsForFolder(folder), p).entries
    IN  {childPath(p, entries[k].Name) :
            k \in {k \in 1..Len(entries) :
                     /\ ~matchesAny(folder, childPath(p, entries[k].Name))
                     /\ entries[k].IsDir \/ IsMarkdownFile(entries[k].Name)}}

\* The children of the directory p that pass the filters and whose build
\* succeeds.
succeeded(folder, p) == {q \in passing(folder, p) : buildSucceeds(folder, q)}

\* Those of them that are files or directories that end with a child.
RECURSIVE kept(_, _)
kept(folder, p) ==
    {q \in succeeded(folder, p) :
        FS_Stat(fsForFolder(folder), q).IsDir => kept(folder, q) # {}}

\* Every directory node at and below node, which the backend holds at rel,
\* has exactly the expected children: with prune those kept, without it
\* all those that pass the filters and whose build succeeds.
RECURSIVE ExactChildren(_, _, _, _)
ExactChildren(node, rel, folder, prune) ==
    /\ {relOfChild(rel, node.Children[k]) : k \in 1..Len(node.Children)}
          = IF prune THEN kept(folder, rel) ELSE succeeded(folder, rel)
    /\ \A k \in 1..Len(node.Children) :
          node.Children[k].Type = "directory" =>
              ExactChildren(node.Children[k], relOfChild(rel, node.Children[k]),
                            folder, prune)

\* The build of the folder returns a tree when stat and list answer on its
\* start, and every directory node of the tree has the expected children.
BranchesOnly(prune) ==
    response.kind = "tree" =>
        /\ buildSucceeds(Folders[1], Folders[1].SubPath) => Len(response.rawRoots) = 1
        /\ \A r \in 1..Len(response.rawRoots) :
              response.rawRoots[r].Type = "directory" =>
                  ExactChildren(response.rawRoots[r], Folders[1].SubPath, Folders[1], prune)

\* C23 as the specification states it: a backend error on a child removes
\* the branch of that child only; the build of a directory whose own stat
\* and list succeed returns a node with exactly the children that pass the
\* filters and whose own builds succeeded.
C23_ErrorRemovesBranchOnly == BranchesOnly(FALSE)

\* C23, amended: the node has exactly the children that pass the filters,
\* whose own builds succeeded and that are not directories ending with zero
\* children; a directory whose children all fail or are skipped is dropped
\* by its parent although its own build succeeded.
C23_ErrorRemovesBranchOrEmptied == BranchesOnly(TRUE)

\* The host fails on doc/README.md: the tree lacks it and holds its sibling
\* doc/sub with deep.markdown.
C23_Witness ==
    /\ response.kind = "tree"
    /\ Len(response.rawRoots) = 1
    /\ Folders[1].GitRef = ""
    /\ Folders[1].SubPath = ""
    /\ content.broken = {"doc/README.md"}
    /\ "doc/README.md" \in passing(Folders[1], "doc")
    /\ ~buildSucceeds(Folders[1], "doc/README.md")
    /\ (Folders[1].Alias \o "/doc/README.md") \notin pathsOf(response.rawRoots[1])
    /\ (Folders[1].Alias \o "/doc/sub/deep.markdown") \in pathsOf(response.rawRoots[1])

\* The kinds of domain events as the clients are told them, with the bit of
\* a notification each stands for, in the order of their priority.
KindsByPriority ==
    <<[bit |-> "Create", kind |-> "create"], [bit |-> "Write", kind |-> "update"],
      [bit |-> "Remove", kind |-> "remove"], [bit |-> "Rename", kind |-> "rename"]>>

\* The kind of the first of these bits that is set in op.
firstKind(op) ==
    KindsByPriority[CHOOSE i \in 1..4 :
                       /\ KindsByPriority[i].bit \in op
                       /\ \A j \in 1..(i - 1) : KindsByPriority[j].bit \notin op].kind

\* The last notification passes the exclusion and the extension filter.
passesFilters ==
    /\ ~IsExcluded(watcher.last.Name)
    /\ isDir(watcher.last.Name) \/ IsMarkdownFile(watcher.last.Name)

\* C25: a notification that passes the exclusion and the extension filter
\* yields at most one domain event, delivered to no callback twice, whose
\* kind is that of the first bit set among create, write (told as update),
\* remove and rename; a notification with none of these bits yields no
\* event and no callback is invoked.
C25_KindByPriority ==
    watcher # None /\ watcher.last # None /\ passesFilters =>
        /\ \A i \in 1..Len(watcher.callbacks) :
              Cardinality(deliveriesTo(watcher.callbacks[i])) <= 1
        /\ \A j, k \in 1..Len(watcher.delivered) :
              watcher.delivered[j].e = watcher.delivered[k].e
        /\ \A k \in 1..Len(watcher.delivered) :
              /\ watcher.last.Op \cap {"Create", "Write", "Remove", "Rename"} # {}
              /\ watcher.delivered[k].e.Path = watcher.last.Name
              /\ OnFileChange(watcher.delivered[k].e) # None
              /\ OnFileChange(watcher.delivered[k].e).payload.event = firstKind(watcher.last.Op)
        /\ handlingOver /\ watcher.last.Op \cap {"Create", "Write", "Remove", "Rename"} # {} =>
              Len(watcher.delivered) = Len(watcher.callbacks)

\* A notification with the bits write and remove was handled with two
\* callbacks registered: each was invoked once, with a write event.
C25_Witness ==
    /\ watcher # None
    /\ watcher.last = [Name |-> "/r/README.md", Op |-> {"Write", "Remove"}]
    /\ handlingOver
    /\ Len(watcher.callbacks) = 2
    /\ Len(watcher.delivered) = 2
    /\ \A k \in 1..2 : watcher.delivered[k].e = [Type |-> EventWrite, Path |-> "/r/README.md"]

\* A path beneath a globally excluded directory: a directory above it has
\* a name that matches a global pattern.
beneathExcluded(path) == \E a \in Ancestors(path) \ {"", "/"} : IsExcluded(a)

\* C27: no domain event is delivered to a callback for a path beneath a
\* globally excluded directory, whatever the directories at startup and
\* whatever notifications follow.
C27_NoEventBeneathExcluded ==
    watcher # None =>
        \A k \in 1..Len(watcher.delivered) :
            ~beneathExcluded(watcher.delivered[k].e.Path)

(***************************************************************************)
(* The file endpoint: FileHandler.resolvePath takes a logical path back to *)
(* a folder and a path of its backend.  SpecResolve: folders are added,    *)
(* updated and removed and the tree is requested.                          *)
(***************************************************************************)

\* FileHandler.resolvePath: [err, folderID, relativePath].
resolvePath(filePath) ==
    LET path == TrimPrefix(filePath, "/")
        cut == SlashPositions(path)
        prefix == IF cut = {} THEN path ELSE Take(path, Min(cut) - 1)
        relativePath == IF cut = {} THEN "" ELSE Drop(path, Min(cut))
        found == {i \in 1..Len(Folders) : Folders[i].Alias = prefix}
    IN  IF path = "" THEN [err |-> ErrNotExist]
        ELSE IF found = {} THEN [err |-> ErrNotExist]
        ELSE IF Contains(relativePath, "..") THEN [err |-> ErrPermission]
        ELSE [err |-> "", folderID |-> Min(found) - 1, relativePath |-> relativePath]

InitResolve ==
    /\ Folders = LegacyFolders("/r")
    /\ Exclude = DefaultExclude
    /\ RepoExclude = NoRepoExclude
    /\ content = GroupContent
    /\ gitUp = TRUE
    /\ response = None
    /\ call = None
    /\ result = None
    /\ watcher = None
    /\ ws = None

NextResolve ==
    \/ \E path \in Roots, gitRef \in TreeRefs : AddFolder(path, "", gitRef, "", <<>>)
    \/ \E index \in 0..(MaxFolders - 1), alias \in TreeAliases, gitRef \in TreeRefs,
          subPath \in TreeSubPaths :
          UpdateFolder(index, alias, gitRef, subPath, <<>>)
    \/ \E index \in 0..(MaxFolders - 1) : RemoveFolder(index)
    \/ GetTree
    \/ Reply

SpecResolve == InitResolve /\ [][NextResolve]_vars

\* The path of the backend a node was built from: its logical path without
\* the alias of its folder.
originOf(node) == Drop(node.Path, Len(folderOf(node).Alias) + 1)

\* C26: for every file node of a built tree, the file endpoint resolves the
\* logical path of the node to the folder the node belongs to and to the
\* relative path the node was built from, whatever aliases the add and
\* update requests have given the folders.
C26_PathsResolveBack ==
    response.kind = "tree" =>
        \A t \in 1..Len(response.rawRoots) :
            \A k \in 1..Len(nodesOf(response.rawRoots[t])) :
                LET node == nodesOf(response.rawRoots[t])[k]
                IN  node.Type = "file" =>
                        resolvePath(node.Path) =
                            [err |-> "", folderID |-> node.FolderID,
                             relativePath |-> originOf(node)]

\* C26 for folders with aliases of their own: the same when no two folders
\* have one alias and no alias holds a "/".
C26_PathsResolveBackDistinctAliases ==
    /\ \A i, j \in 1..Len(Folders) : i # j => Folders[i].Alias # Folders[j].Alias
    /\ \A i \in 1..Len(Folders) : ~Contains(Folders[i].Alias, "/")
    => C26_PathsResolveBack

\* C29: with the watcher started, after any sequence of folder add, update
\* and remove requests the root of every configured source without a ref is
\* registered for notification, so that a change in a folder added after
\* startup produces an event.
C29_LocalRootsWatched ==
    watcher # None /\ watcher.started /\ ~watcher.closed =>
        \A i \in 1..Len(Folders) :
            Folders[i].GitRef = "" => Folders[i].Path \in watcher.watches

\* C30: no two configured folders have the same path, ref and sub-path,
\* after any sequence of AddFolder, UpdateFolderByIndex and
\* RemoveFolderByIndex from a list without duplicates.
C30_NoDuplicateTriple ==
    \A i, j \in 1..Len(Folders) :
        i # j => <<Folders[i].Path, Folders[i].GitRef, Folders[i].SubPath>>
                    # <<Folders[j].Path, Folders[j].GitRef, Folders[j].SubPath>>

\* C30 for AddFolder and RemoveFolderByIndex alone: no step that adds or
\* removes a folder leads from a list without duplicates to one with.
C30_AddAndRemoveKeepTriplesApart ==
    [][Len(Folders') # Len(Folders) /\ C30_NoDuplicateTriple
          => C30_NoDuplicateTriple']_vars
=============================================================================
